---- MODULE Spec2Model ----
(***************************************************************************)
(* Verification model of the sql-throughput-challenge benchmark engine:    *)
(* the five read strategies (src/src/strategies), the orchestrator         *)
(* (src/src/orchestrator.py) and the result merge.                         *)
(*                                                                         *)
(* The specifications of the module (each leaves the variables of the     *)
(* others at their idle values):                                           *)
(*   SpecStrategies  one strategy instance executing against a table       *)
(*   Spec            one run_strategies call, step by step                 *)
(*   SpecMerge       _merge_result applied to a result and a ProfileStats  *)
(*   SpecWorkers     MultiprocessingStrategy.execute with its worker pool  *)
(*   SpecPooled      execute / close calls on one PooledSyncStrategy       *)
(*   SpecRanges      _split_limit_ranges                                   *)
(*   SpecAsync       AsyncStreamStrategy.execute / execute_async           *)
(*   SpecAsyncFair   SpecAsync with a fair window loop                     *)
(*   SpecProfiler    profile_block with its sampler thread                 *)
(*   SpecContexts    one MultiprocessingStrategy executed repeatedly        *)
(*   SpecAggregate   _aggregate_runs over per-run records                  *)
(*   SpecRetry       get_sync_connection under its retry decorator         *)
(*   SpecRetryFair   SpecRetry where every attempt and sleep ends          *)
(*   SpecPoolManager threads sharing the PoolManager singleton             *)
(*   SpecFanOut      _stream_concurrent with its tasks and its pool        *)
(*   SpecChildCpu    the sampler's per-child CPU accounting                *)
(*                                                                         *)
(* Encoding of Python values: None is <<>> and a present optional value v  *)
(* is <<v>>; durations are integers in milliseconds, rounded durations in  *)
(* hundredths of a second, throughputs in hundredths of a row per second,  *)
(* cpu percentages in hundredths (raw) and tenths (rounded) of a percent.  *)
(***************************************************************************)
EXTENDS Integers, Sequences, FiniteSets, TLC

VARIABLES
    \* ---- SpecStrategies: one strategy against one table
    table,        \* set of row identifiers present in public.records
    limit,        \* the limit handed to execute
    outcome,      \* what the last execute produced (NoOutcome before any)
    \* ---- Spec: one run_strategies call
    config,       \* the RunConfig
    pc,           \* position inside run_strategies
    names,        \* resolved strategy names
    idx,          \* 1-based position in names of the strategy being run
    run_num,      \* run number of the current measurement run
    created,      \* every strategy instance created so far, in creation order
    pools,        \* every connection pool created so far, in creation order
    pending,      \* exception in flight out of _profiled_execute, <<>> if none
    result,       \* value returned by _profiled_execute, <<>> if none
    run_results,  \* per-run records of the current strategy
    results,      \* the list run_strategies accumulates
    returned,     \* <<list>> once run_strategies has returned
    raised,       \* <<exc>> once an exception has left run_strategies
    log,          \* counters of what was logged / observed
    \* ---- SpecMerge: _merge_result
    m_result,     \* the strategy result handed to _merge_result
    m_stats,      \* the ProfileStats handed to _merge_result
    m_merged,     \* <<merged>> once merged
    \* ---- SpecWorkers: MultiprocessingStrategy.execute, step by step
    mp_table,     \* set of row identifiers present in public.records
    mp_limit,     \* the limit handed to execute
    mp_params,    \* the instance's processes and chunk_size
    mp_pc,        \* position of the coordinator inside execute
    mp_items,     \* the work items handed to map_async
    mp_status,    \* per work item: "queued", "running", "ok" or "failed"
    mp_trace,     \* the calls made on the process pool, in order
    mp_result,    \* the StrategyResult returned (NoOutcome before)
    \* ---- SpecPooled: one PooledSyncStrategy instance over its life
    ps_created,   \* <<the instance>>
    ps_pools,     \* every ConnectionPool it created, in creation order
    ps_log,       \* the execute / close calls made on it, in order
    \* ---- SpecRanges: _split_limit_ranges
    rg_limit,     \* the limit argument
    rg_concurrency, \* the concurrency argument
    rg_ranges,    \* <<the list returned>> once called
    \* ---- SpecAsync: AsyncStreamStrategy.execute / execute_async, step by step
    as_in,        \* entry point, whether a loop is running, table, limit, concurrency
    as_pc,        \* position inside the call
    as_loops,     \* event loops created by asyncio.run
    as_pool,      \* the asyncpg pool: "none", "open" or "closed"
    as_conns,     \* connections opened outside a pool (asyncpg.connect)
    as_loc,       \* local variables of _stream_concurrent
    as_exc,       \* <<exception>> on its way out
    as_out,       \* <<rows>> once a result has been returned
    \* ---- SpecProfiler: profile_block, its caller and its sampler thread
    pf_in,        \* psutil present, track_children, whether the wrapped work raises
    pf_main,      \* position of the thread that runs profile_block
    pf_sampler,   \* position of the sampler thread
    pf_stop,      \* the stop_sampling event
    pf_closure,   \* peak_rss, total_child_cpu_time and the sampler's local current_rss
    pf_stats,     \* the ProfileStats handed to the caller
    pf_obs,       \* what has been observed: reads of the finalizer, late writes
    \* ---- SpecContexts: one MultiprocessingStrategy instance, executed repeatedly
    mc_in,        \* table, limit, constructor arguments, mp.cpu_count()
    mc_global,    \* the process-global start method, <<>> while unset
    mc_self,      \* <<the instance>> once constructed
    mc_contexts,  \* every context mp.get_context returned, with its Pool calls
    mc_calls,     \* one record per finished execute
    \* ---- SpecAggregate: _aggregate_runs
    ag_runs,      \* the per-run records handed to _aggregate_runs
    ag_out,       \* <<the aggregate>> once computed
    \* ---- SpecRetry: get_sync_connection under its tenacity decorator
    rt_pc,        \* position inside the retrying call
    rt_attempt,   \* tenacity's attempt_number
    rt_trace,     \* how each attempt of psycopg.connect ended, in order
    rt_waits,     \* the sleeps between attempts, in seconds
    rt_out,       \* <<connection>> or <<exception>> once the call has ended
    \* ---- SpecPoolManager: threads constructing PoolManager and asking for the sync pool
    pm_lock,      \* PoolManager._lock: 0 when free, else the thread holding it
    pm_instance,  \* PoolManager._instance: 0 for None, else the manager's number
    pm_sync_pool, \* _instance._sync_pool: 0 for None, else the pool's number
    pm_made,      \* how many managers and pools have been constructed
    pm_threads,   \* per thread: position, operation, what it was handed
    \* ---- SpecFanOut: _stream_concurrent with its fan-out tasks and its pool
    fo_in,        \* entry point, rows in the table, limit, concurrency
    fo_pc,        \* position of the coroutine _stream_concurrent
    fo_pool,      \* the asyncpg pool: state, max_size, holders with a live connection
    fo_loc,       \* locals: remaining, rows selected so far, rows_read, selected ids, selection holder
    fo_tasks,     \* the tasks of the current asyncio.gather, one state each
    fo_obs,       \* the exception on its way out, the value returned, late acquisitions
    \* ---- SpecChildCpu: the sampler's child CPU accounting, child by child
    cc_cpu,       \* per child pid: the CPU time (user + system) it has consumed so far
    cc_seen,      \* seen_children: per pid <<last recorded cpu_time>>, <<>> when absent
    cc_total,     \* total_child_cpu_time
    cc_obs        \* per pid: first and last successful reading, contribution, failed reads

stratVars == <<table, limit, outcome>>
orchVars  == <<config, pc, names, idx, run_num, created, pools, pending,
               result, run_results, results, returned, raised, log>>
mergeVars == <<m_result, m_stats, m_merged>>
mpVars    == <<mp_table, mp_limit, mp_params, mp_pc, mp_items, mp_status,
               mp_trace, mp_result>>
psVars    == <<ps_created, ps_pools, ps_log>>
rgVars    == <<rg_limit, rg_concurrency, rg_ranges>>
asVars    == <<as_in, as_pc, as_loops, as_pool, as_conns, as_loc, as_exc, as_out>>
pfVars    == <<pf_in, pf_main, pf_sampler, pf_stop, pf_closure, pf_stats, pf_obs>>
ctxVars   == <<mc_in, mc_global, mc_self, mc_contexts, mc_calls>>
agVars    == <<ag_runs, ag_out>>
rtVars    == <<rt_pc, rt_attempt, rt_trace, rt_waits, rt_out>>
pmVars    == <<pm_lock, pm_instance, pm_sync_pool, pm_made, pm_threads>>
foVars    == <<fo_in, fo_pc, fo_pool, fo_loc, fo_tasks, fo_obs>>
ccVars    == <<cc_cpu, cc_seen, cc_total, cc_obs>>
lateVars  == <<agVars, rtVars, pmVars, foVars, ccVars>>
extVars   == <<mpVars, psVars, rgVars, asVars, pfVars, ctxVars, lateVars>>
vars      == <<stratVars, orchVars, mergeVars, extVars>>

None == <<>>
Some(v) == <<v>>

Min2(a, b) == IF a <= b THEN a ELSE b
Max2(a, b) == IF a >= b THEN a ELSE b

(***************************************************************************)
(* Bounds of the model.                                                    *)
(***************************************************************************)
\* row identifiers are drawn from 1..MaxId, so tables with gaps occur
MaxId == 6
\* limits handed to execute range over 0..MaxLimit (above MaxId: limit > rows)
MaxLimit == 7
\* fetchmany / cursor.fetch batch sizes range over 1..MaxBatch
MaxBatch == 2
\* multiprocessing chunk_size ranges over 1..MaxChunk
MaxChunk == 3
\* async_stream concurrency ranges over 1..MaxConcurrency
MaxConcurrency == 3

(***************************************************************************)
(* Program constants of async_stream.py, scaled by 1/10000 so that both    *)
(* sides of the threshold and several windows fit in the table bound:      *)
(* 50_000 -> 5 and 20_000 -> 2.  The code only compares and subtracts      *)
(* them.                                                                   *)
(***************************************************************************)
CONCURRENT_ID_WINDOW_THRESHOLD == 5
CONCURRENT_ID_WINDOW_SIZE == 3
\* multiprocessing.py: errors[:3]
MaxReportedErrors == 3

(***************************************************************************)
(* The database, as the queries of the strategies see it.                  *)
(***************************************************************************)
RECURSIVE SortedSeq(_)
SortedSeq(S) ==
    IF S = {} THEN <<>>
    ELSE LET m == CHOOSE x \in S : \A y \in S : x <= y
         IN  <<m>> \o SortedSeq(S \ {m})

Prefix(s, n) == SubSeq(s, 1, Min2(n, Len(s)))

\* SELECT ... FROM public.records ORDER BY id LIMIT lim
SelectOrdered(tbl, lim) == Prefix(SortedSeq(tbl), lim)

\* SELECT id ... WHERE ($1 IS NULL OR id > $1) ORDER BY id LIMIT $2
SelectAfter(tbl, last, lim) ==
    IF last = None THEN SelectOrdered(tbl, lim)
    ELSE SelectOrdered({i \in tbl : i > last[1]}, lim)

SeqRange(s) == {s[i] : i \in 1..Len(s)}

\* SELECT * ... WHERE id = ANY(ids) ORDER BY id
SelectAny(tbl, ids) == SortedSeq({i \in tbl : i \in SeqRange(ids)})

\* faulty variant of _batched_fetch: a short last batch is not counted
_batched_fetch_DropsShortBatch(rows, batch_size) ==
    (Len(rows) \div batch_size) * batch_size

\* the fetchmany loop: take batches of up to batch_size rows until an empty one
RECURSIVE _batched_fetch(_, _)
_batched_fetch(rows, batch_size) ==
    LET batch == Prefix(rows, batch_size)
    IN  IF batch = <<>> THEN 0
        ELSE Len(batch)
             + _batched_fetch(SubSeq(rows, Len(batch) + 1, Len(rows)), batch_size)

RECURSIVE SumSeq(_)
SumSeq(s) == IF s = <<>> THEN 0 ELSE s[1] + SumSeq(Tail(s))

RECURSIVE Flatten(_)
Flatten(ss) == IF ss = <<>> THEN <<>> ELSE ss[1] \o Flatten(Tail(ss))

(***************************************************************************)
(* Strategy results.  Every execute outcome has the same fields:           *)
(*   strategy  the strategy's name                                         *)
(*   params    the instance's configuration                                *)
(*   raised    TRUE when execute raised instead of returning               *)
(*   rows      the StrategyResult's rows                                   *)
(*   error     the StrategyResult's error: None, or <<messages>> for the   *)
(*             "; "-joined messages                                        *)
(*   ids       number of identifiers the coordinator selected (notes)      *)
(*   nerrors   number of failed chunks (notes)                             *)
(*   chunks    the identifier lists handed to workers / fan-out tasks, in  *)
(*             dispatch order                                              *)
(*   path      which code path produced the rows                           *)
(***************************************************************************)
\* an instance's configuration; 0 where the strategy has no such parameter
Params(batch_size, chunk_size, processes, concurrency) ==
    [batch_size |-> batch_size, chunk_size |-> chunk_size,
     processes |-> processes, concurrency |-> concurrency]

NoOutcome == [strategy |-> "none", params |-> Params(0, 0, 0, 0), raised |-> FALSE, rows |-> 0,
              error |-> None, ids |-> 0, nerrors |-> 0, chunks |-> <<>>,
              path |-> "none"]

StrategyOutcome(name, params, rows, path) ==
    [strategy |-> name, params |-> params, raised |-> FALSE, rows |-> rows,
     error |-> None, ids |-> 0, nerrors |-> 0, chunks |-> <<>>, path |-> path]

\* execute raised (connection refused, query failure ...): no StrategyResult
StrategyRaised(name, params) ==
    [strategy |-> name, params |-> params, raised |-> TRUE, rows |-> 0,
     error |-> None, ids |-> 0, nerrors |-> 0, chunks |-> <<>>, path |-> "raised"]

(***************************************************************************)
(* naive.py: one query, fetchall, len(results).                            *)
(***************************************************************************)
NaiveStrategy_execute(tbl, lim) ==
    LET fetched == SelectOrdered(tbl, lim)
    IN  StrategyOutcome("naive", Params(0, 0, 0, 0), Len(fetched), "fetchall")

(***************************************************************************)
(* cursor_pagination.py: server-side cursor drained by _batched_fetch.     *)
(***************************************************************************)
CursorPaginationStrategy_execute(tbl, lim, batch_size) ==
    StrategyOutcome("cursor_pagination", Params(batch_size, 0, 0, 0),
                    _batched_fetch(SelectOrdered(tbl, lim), batch_size), "cursor")

(***************************************************************************)
(* pooled_sync.py execute: the same fetchmany loop on a pooled connection. *)
(* (The pool's lifecycle is modelled with the orchestrator below.)         *)
(***************************************************************************)
PooledSyncStrategy_execute(tbl, lim, batch_size) ==
    StrategyOutcome("pooled_sync", Params(batch_size, 0, 0, 0),
                    _batched_fetch(SelectOrdered(tbl, lim), batch_size), "cursor")

(***************************************************************************)
(* multiprocessing.py                                                      *)
(***************************************************************************)
\* cur.fetchmany(10_000) in the worker
WorkerFetchBatch == 10000

\* faulty variant of _make_work_items: numeric ranges of chunk_size between the
\* first and the last selected identifier, as if identifiers were contiguous
_make_work_items_ByIdRange(ids, chunk_size) ==
    IF ids = <<>> THEN <<>>
    ELSE LET lo == ids[1]
             hi == ids[Len(ids)]
             n == (hi - lo) \div chunk_size + 1
         IN  [k \in 1..n |->
                [j \in 1..Min2(chunk_size, hi - (lo + (k - 1) * chunk_size) + 1) |->
                    lo + (k - 1) * chunk_size + j - 1]]

\* variant: a last chunk shorter than chunk_size is not handed out
RECURSIVE MakeWorkItemsFrom_DropsTail(_, _, _)
MakeWorkItemsFrom_DropsTail(ids, chunk_size, start) ==
    IF start + chunk_size > Len(ids) THEN <<>>
    ELSE <<SubSeq(ids, start + 1, start + chunk_size)>>
         \o MakeWorkItemsFrom_DropsTail(ids, chunk_size, start + chunk_size)

RECURSIVE MakeWorkItemsFrom(_, _, _)
MakeWorkItemsFrom(ids, chunk_size, start) ==
    IF start >= Len(ids) THEN <<>>
    ELSE LET chunk_ids == SubSeq(ids, start + 1, Min2(start + chunk_size, Len(ids)))
         IN  (IF chunk_ids # <<>> THEN <<chunk_ids>> ELSE <<>>)
             \o MakeWorkItemsFrom(ids, chunk_size, start + chunk_size)

\* for start in range(0, len(ids), chunk_size): ids[start : start + chunk_size]
_make_work_items(ids, chunk_size) == MakeWorkItemsFrom(ids, chunk_size, 0)

\* the worker: <<row_count, error>>; fails = the worker's connection or query raised
_fetch_ids(tbl, work_ids, fails) ==
    IF work_ids = <<>> THEN <<0, None>>
    ELSE IF fails
         THEN <<0, Some([n |-> Len(work_ids), first |-> work_ids[1],
                         last |-> work_ids[Len(work_ids)]])>>
         ELSE <<_batched_fetch(SelectAny(tbl, work_ids), WorkerFetchBatch), None>>

\* failing: the set of work-item positions whose worker raises;
\* timed_out: map_async(...).get(timeout=600) raised TimeoutError
MultiprocessingStrategy_execute(tbl, lim, processes, chunk_size, failing, timed_out) ==
    LET params == Params(0, chunk_size, processes, 0)
        ids == SelectOrdered(tbl, lim)
        work_items == _make_work_items(ids, chunk_size)
        worker_results == [w \in 1..Len(work_items) |->
                              _fetch_ids(tbl, work_items[w], w \in failing)]
        ok_counts == [w \in 1..Len(work_items) |->
                         IF worker_results[w][2] # None THEN 0
                         ELSE worker_results[w][1]]
        worker_errors == Flatten([w \in 1..Len(work_items) |-> worker_results[w][2]])
        rows_read == IF timed_out THEN 0 ELSE SumSeq(ok_counts)
        errors == IF timed_out THEN <<[timeout_minutes |-> 10]>>
                  ELSE worker_errors
    IN  IF ids = <<>>
        THEN [StrategyOutcome("multiprocessing", params, 0, "no_ids")
                EXCEPT !.error = None]
        ELSE [StrategyOutcome("multiprocessing", params, rows_read, "pool")
                EXCEPT !.error = IF errors # <<>>
                                 THEN Some(Prefix(errors, MaxReportedErrors))
                                 ELSE None,
                       !.ids = Len(ids),
                       !.nerrors = Len(errors),
                       !.chunks = work_items]


(***************************************************************************)
(* async_stream.py                                                         *)
(***************************************************************************)
\* variant: the remainder goes to the last ranges instead of the first
RECURSIVE SplitRangesFrom_ExtraLast(_, _, _, _, _)
SplitRangesFrom_ExtraLast(index, effective_concurrency, base_size, remainder, start_idx) ==
    IF index >= effective_concurrency THEN <<>>
    ELSE LET chunk_size == base_size
                           + (IF index >= effective_concurrency - remainder THEN 1 ELSE 0)
             end_idx == start_idx + chunk_size
         IN  <<(<<start_idx, end_idx>>)>>
             \o SplitRangesFrom_ExtraLast(index + 1, effective_concurrency, base_size,
                                          remainder, end_idx)

RECURSIVE SplitRangesFrom(_, _, _, _, _)
SplitRangesFrom(index, effective_concurrency, base_size, remainder, start_idx) ==
    IF index >= effective_concurrency THEN <<>>
    ELSE LET chunk_size == base_size + (IF index < remainder THEN 1 ELSE 0)
             end_idx == start_idx + chunk_size
         IN  <<(<<start_idx, end_idx>>)>>
             \o SplitRangesFrom(index + 1, effective_concurrency, base_size,
                                remainder, end_idx)

\* variant: the concurrency is not clamped to the limit
_split_limit_ranges_NoClamp(lim, concurrency) ==
    IF lim <= 0 THEN <<>>
    ELSE SplitRangesFrom(0, concurrency, lim \div concurrency, lim % concurrency, 0)

\* ranges are 0-based (start inclusive, end exclusive), as in the code
_split_limit_ranges(lim, concurrency) ==
    IF lim <= 0 THEN <<>>
    ELSE LET effective_concurrency == Max2(1, Min2(concurrency, lim))
             base_size == lim \div effective_concurrency
             remainder == lim % effective_concurrency
         IN  SplitRangesFrom(0, effective_concurrency, base_size, remainder, 0)

\* the Python slice selected_ids[start_idx:end_idx]
Slice(s, start_idx, end_idx) == SubSeq(s, start_idx + 1, Min2(end_idx, Len(s)))

\* one fan-out task: [rows, chunks]
fetch_range(tbl, selected_ids, start_idx, end_idx, batch_size) ==
    LET chunk_ids == Slice(selected_ids, start_idx, end_idx)
    IN  IF chunk_ids = <<>> THEN [rows |-> 0, chunks |-> <<>>]
        ELSE [rows |-> _batched_fetch(SelectAny(tbl, chunk_ids), batch_size),
              chunks |-> <<chunk_ids>>]

\* asyncio.gather over one task per range, then sum(counts)
process_selected_ids(tbl, ids, effective_concurrency, batch_size) ==
    IF ids = <<>> THEN [rows |-> 0, chunks |-> <<>>]
    ELSE \* ranges and tasks are each bound to one value, as the code's locals are
         CHOOSE gathered \in
             {[rows |-> SumSeq([t \in DOMAIN tasks |-> tasks[t].rows]),
               chunks |-> Flatten([t \in DOMAIN tasks |-> tasks[t].chunks])] :
                 tasks \in {[t \in DOMAIN ranges |->
                               fetch_range(tbl, ids, ranges[t][1], ranges[t][2], batch_size)] :
                            ranges \in {_split_limit_ranges(Len(ids), effective_concurrency)}}} :
             TRUE

\* the guardrail loop: while remaining > 0, one keyset window at a time
RECURSIVE WindowLoop(_, _, _, _, _)
WindowLoop(tbl, remaining, last_selected_id, effective_concurrency, batch_size) ==
    IF remaining <= 0 THEN [rows |-> 0, chunks |-> <<>>]
    ELSE LET window_limit == Min2(CONCURRENT_ID_WINDOW_SIZE, remaining)
             window_ids == SelectAfter(tbl, last_selected_id, window_limit)
         IN  IF window_ids = <<>> THEN [rows |-> 0, chunks |-> <<>>]
             ELSE LET here == process_selected_ids(tbl, window_ids,
                                                   effective_concurrency, batch_size)
                      rest == WindowLoop(tbl, remaining - Len(window_ids),
                                         Some(window_ids[Len(window_ids)]),
                                         effective_concurrency, batch_size)
                  IN  [rows |-> here.rows + rest.rows,
                       chunks |-> here.chunks \o rest.chunks]

\* the single-cursor path
_stream(tbl, lim, batch_size) == _batched_fetch(SelectOrdered(tbl, lim), batch_size)

\* [rows, chunks, path]
_stream_concurrent(tbl, lim, concurrency, batch_size) ==
    LET effective_concurrency == Max2(1, Min2(concurrency, lim))
    IN  IF lim <= 0 THEN [rows |-> 0, chunks |-> <<>>, path |-> "nothing"]
        ELSE IF effective_concurrency <= 1
        THEN [rows |-> _stream(tbl, lim, batch_size), chunks |-> <<>>,
              path |-> "single"]
        ELSE IF lim <= CONCURRENT_ID_WINDOW_THRESHOLD
        THEN LET ids == SelectOrdered(tbl, lim)
                 got == process_selected_ids(tbl, ids, effective_concurrency,
                                             batch_size)
             IN  [rows |-> got.rows, chunks |-> got.chunks, path |-> "prefetch"]
        ELSE LET got == WindowLoop(tbl, lim, None, effective_concurrency, batch_size)
             IN  [rows |-> got.rows, chunks |-> got.chunks, path |-> "windowed"]

\* execute(), called with no event loop running
AsyncStreamStrategy_execute(tbl, lim, batch_size, concurrency) ==
    LET params == Params(batch_size, 0, 0, concurrency)
    IN  IF concurrency > 1
        THEN LET got == _stream_concurrent(tbl, lim, concurrency, batch_size)
             IN  [StrategyOutcome("async_stream", params, got.rows, got.path)
                    EXCEPT !.chunks = got.chunks]
        ELSE StrategyOutcome("async_stream", params,
                             _stream(tbl, lim, batch_size), "single")


(***************************************************************************)
(* orchestrator.py: results are Python dicts, modelled as records whose    *)
(* domain is the set of keys present.                                      *)
(***************************************************************************)
HasKey(d, k) == k \in DOMAIN d

\* dict(result) followed by assignments: the assigned keys win
Updated(d, assigned) == assigned @@ d

\* hundredths-of-a-unit arithmetic: the integer nearest to n / d (n >= 0, d > 0)
RoundDiv(n, d) == (2 * n + d) \div (2 * d)

\* _round_float(value, 2) of a duration: milliseconds -> hundredths of a second
_round_float(value_ms) == RoundDiv(value_ms, 10)

\* _round_float(value, 1) of a cpu percentage: hundredths -> tenths of a percent
_round_float1(value_c) == RoundDiv(value_c, 10)

\* _round_float(rows / duration_seconds): hundredths of a row per second
Throughput(rows, duration_cs) == RoundDiv(rows * 10000, duration_cs)

\* Python truthiness of an optional number: None and 0 are falsy
Truthy(opt) == opt # None /\ opt[1] # 0

_merge_result(res, stats) ==
    LET merged == IF HasKey(res, "rows") THEN res ELSE Updated(res, [rows |-> 0])
        duration_seconds == _round_float(stats.duration_seconds)
        cpu == IF Truthy(stats.cpu_percent)
               THEN Some(_round_float1(stats.cpu_percent[1])) ELSE None
    IN  Updated(merged,
            [duration_seconds |-> duration_seconds,
             throughput_rows_per_sec |->
                 IF duration_seconds # 0
                 THEN Throughput(merged.rows, duration_seconds) ELSE 0,
             peak_rss_bytes |-> stats.peak_rss_bytes,
             cpu_percent |-> cpu,
             profile |-> [label |-> stats.label,
                          start_ts |-> stats.start_ts,
                          end_ts |-> stats.end_ts,
                          duration_seconds |-> _round_float(stats.duration_seconds),
                          peak_rss_bytes |-> stats.peak_rss_bytes,
                          cpu_percent |-> cpu]])

\* a ProfileStats as profile_block leaves it
ProfileStats(label, start_ts, end_ts, peak_rss_bytes, cpu_percent) ==
    [label |-> label, start_ts |-> start_ts, end_ts |-> end_ts,
     duration_seconds |-> end_ts - start_ts,
     peak_rss_bytes |-> peak_rss_bytes, cpu_percent |-> cpu_percent]

\* the zero-row record _profiled_execute substitutes in tolerant mode
FailureResult(exc, failure_policy) ==
    [error |-> exc.msg,
     rows |-> 0,
     duration_seconds |-> 0,
     notes |-> "Execution failed in tolerant mode; run continued.",
     extra |-> [failed |-> TRUE, error_type |-> exc.type,
                failure_policy |-> failure_policy]]


(***************************************************************************)
(* Idle values: what a specification leaves untouched of the others.       *)
(***************************************************************************)
StrategiesIdle ==
    /\ table = {}
    /\ limit = 0
    /\ outcome = NoOutcome

OrchestratorIdle ==
    /\ config = <<>>
    /\ pc = "idle"
    /\ names = <<>>
    /\ idx = 0
    /\ run_num = 0
    /\ created = <<>>
    /\ pools = <<>>
    /\ pending = None
    /\ result = None
    /\ run_results = <<>>
    /\ results = <<>>
    /\ returned = None
    /\ raised = None
    /\ log = <<>>

MergeIdle ==
    /\ m_result = <<>>
    /\ m_stats = <<>>
    /\ m_merged = None

WorkersIdle ==
    /\ mp_table = {}
    /\ mp_limit = 0
    /\ mp_params = <<>>
    /\ mp_pc = "idle"
    /\ mp_items = <<>>
    /\ mp_status = <<>>
    /\ mp_trace = <<>>
    /\ mp_result = NoOutcome

PooledIdle == ps_created = <<>> /\ ps_pools = <<>> /\ ps_log = <<>>

RangesIdle == rg_limit = 0 /\ rg_concurrency = 0 /\ rg_ranges = <<>>

AsyncIdle ==
    /\ as_in = <<>>
    /\ as_pc = "idle"
    /\ as_loops = 0
    /\ as_pool = "none"
    /\ as_conns = 0
    /\ as_loc = <<>>
    /\ as_exc = <<>>
    /\ as_out = <<>>

ProfilerIdle ==
    /\ pf_in = <<>>
    /\ pf_main = "idle"
    /\ pf_sampler = "idle"
    /\ pf_stop = FALSE
    /\ pf_closure = <<>>
    /\ pf_stats = <<>>
    /\ pf_obs = <<>>

ContextsIdle ==
    /\ mc_in = <<>>
    /\ mc_global = <<>>
    /\ mc_self = <<>>
    /\ mc_contexts = <<>>
    /\ mc_calls = <<>>

AggregateIdle == ag_runs = <<>> /\ ag_out = <<>>

RetryIdle ==
    /\ rt_pc = "idle" /\ rt_attempt = 0 /\ rt_trace = <<>>
    /\ rt_waits = <<>> /\ rt_out = <<>>

PoolManagerIdle ==
    /\ pm_lock = 0 /\ pm_instance = 0 /\ pm_sync_pool = 0
    /\ pm_made = <<>> /\ pm_threads = <<>>

FanOutIdle ==
    /\ fo_in = <<>> /\ fo_pc = "idle" /\ fo_pool = <<>>
    /\ fo_loc = <<>> /\ fo_tasks = <<>> /\ fo_obs = <<>>

ChildCpuIdle ==
    /\ cc_cpu = <<>> /\ cc_seen = <<>> /\ cc_total = 0 /\ cc_obs = <<>>

LateIdle ==
    /\ AggregateIdle
    /\ RetryIdle
    /\ PoolManagerIdle
    /\ FanOutIdle
    /\ ChildCpuIdle

\* the variables of the specifications above the late ones, and their idle values
earlyVars == <<stratVars, orchVars, mergeVars, mpVars, psVars, rgVars, asVars,
               pfVars, ctxVars>>
EarlyIdle ==
    /\ StrategiesIdle
    /\ OrchestratorIdle
    /\ MergeIdle
    /\ WorkersIdle
    /\ PooledIdle
    /\ RangesIdle
    /\ AsyncIdle
    /\ ProfilerIdle
    /\ ContextsIdle

ExtIdle ==
    /\ WorkersIdle
    /\ PooledIdle
    /\ RangesIdle
    /\ AsyncIdle
    /\ ProfilerIdle
    /\ ContextsIdle
    /\ LateIdle

(***************************************************************************)
(* SpecStrategies: a table, a limit, and one execute of a fresh strategy   *)
(* instance against it.                                                    *)
(***************************************************************************)
InitStrategies ==
    /\ table \in SUBSET (1..MaxId)
    /\ limit \in 0..MaxLimit
    /\ outcome = NoOutcome
    /\ OrchestratorIdle
    /\ MergeIdle
    /\ ExtIdle

ExecNaive ==
    /\ outcome = NoOutcome
    /\ outcome' = NaiveStrategy_execute(table, limit)
    /\ UNCHANGED <<table, limit, orchVars, mergeVars, extVars>>

ExecCursorPagination ==
    /\ outcome = NoOutcome
    /\ \E batch_size \in 1..MaxBatch :
          outcome' = CursorPaginationStrategy_execute(table, limit, batch_size)
    /\ UNCHANGED <<table, limit, orchVars, mergeVars, extVars>>

ExecPooledSync ==
    /\ outcome = NoOutcome
    /\ \E batch_size \in 1..MaxBatch :
          outcome' = PooledSyncStrategy_execute(table, limit, batch_size)
    /\ UNCHANGED <<table, limit, orchVars, mergeVars, extVars>>

\* every subset of the work items may fail; the pool may time out
ExecMultiprocessing ==
    /\ outcome = NoOutcome
    /\ \E processes \in 1..MaxConcurrency, chunk_size \in 1..MaxChunk,
          timed_out \in BOOLEAN :
          \E failing \in SUBSET (1..Len(_make_work_items(SelectOrdered(table, limit),
                                                         chunk_size))) :
             outcome' = MultiprocessingStrategy_execute(table, limit, processes,
                                                        chunk_size, failing, timed_out)
    /\ UNCHANGED <<table, limit, orchVars, mergeVars, extVars>>

ExecAsyncStream ==
    /\ outcome = NoOutcome
    /\ \E batch_size \in 1..MaxBatch, concurrency \in 1..MaxConcurrency :
          outcome' = AsyncStreamStrategy_execute(table, limit, batch_size, concurrency)
    /\ UNCHANGED <<table, limit, orchVars, mergeVars, extVars>>

\* the database is unreachable or a query fails: execute raises
ExecRaises ==
    /\ outcome = NoOutcome
    /\ \E name \in {"naive", "cursor_pagination", "pooled_sync",
                    "multiprocessing", "async_stream"} :
          outcome' = StrategyRaised(name, Params(0, 0, 0, 0))
    /\ UNCHANGED <<table, limit, orchVars, mergeVars, extVars>>

NextStrategies ==
    \/ ExecNaive
    \/ ExecCursorPagination
    \/ ExecPooledSync
    \/ ExecMultiprocessing
    \/ ExecAsyncStream
    \/ ExecRaises

SpecStrategies == InitStrategies /\ [][NextStrategies]_vars

(***************************************************************************)
(* Properties of the strategies                                            *)
(***************************************************************************)
Available == Cardinality(table)

ErrorFree(o) == o.strategy # "none" /\ ~o.raised /\ o.error = None

\* C1: for each of the five strategies and any table contents, an error-free
\* execute(limit) returns rows = min(limit, available rows); in particular
\* rows = 0 with error None for an empty table.
C1_RowsAreMinLimitAvailable ==
    /\ ErrorFree(outcome) => outcome.rows = Min2(limit, Available)
    /\ (outcome.strategy # "none" /\ ~outcome.raised /\ table = {})
          => (outcome.rows = 0 /\ outcome.error = None)

\* C1 witness: a strategy has returned on a table holding fewer rows than the
\* limit (rows = available), after pagination in several batches
C1_Witness ==
    /\ ErrorFree(outcome)
    /\ outcome.strategy = "cursor_pagination"
    /\ outcome.params.batch_size = 2
    /\ Available >= 3
    /\ limit > Available
    /\ outcome.rows = Available

Gapped == table # {} /\ table # 1..Cardinality(table)

FannedOut(o) ==
    /\ ~o.raised
    /\ \/ o.strategy = "multiprocessing" /\ o.path = "pool"
       \/ o.strategy = "async_stream" /\ o.path \in {"prefetch", "windowed"}

\* C2: with gapped identifiers, the multiprocessing fan-out (any chunk_size) and
\* the async fan-out (concurrency > 1) hand out exactly the selected identifier
\* list: the dispatched chunks, concatenated, are the selected identifiers, each
\* once and none other; an error-free result counts min(limit, available) rows.
C2_FanOutPartitionsSelectedIds ==
    FannedOut(outcome) =>
        /\ Flatten(outcome.chunks) = SelectOrdered(table, limit)
        /\ \A c \in 1..Len(outcome.chunks) : outcome.chunks[c] # <<>>
        /\ outcome.error = None => outcome.rows = Min2(limit, Available)

\* C2 witness: a gapped table, a limit cutting inside it, and a fan-out over
\* several chunks that returned exactly limit rows
C2_Witness ==
    /\ Gapped
    /\ FannedOut(outcome)
    /\ outcome.error = None
    /\ Len(outcome.chunks) >= 3
    /\ limit < Available
    /\ outcome.rows = limit
    /\ outcome.path \in {"pool", "windowed"}

\* execute of the multiprocessing strategy went through the pool
Chunked == ~outcome.raised /\ outcome.strategy = "multiprocessing" /\ outcome.path = "pool"

\* C29: _make_work_items cuts the selected identifier list, contiguous or
\* gapped, for every chunk_size >= 1: the WorkItems concatenated in order are
\* the list itself, every WorkItem is non-empty and has at most chunk_size
\* identifiers, and all but possibly the last have exactly chunk_size.
C29_WorkItemsCutTheIdList ==
    Chunked =>
       LET items == outcome.chunks
           chunk_size == outcome.params.chunk_size
       IN  /\ Flatten(items) = SelectOrdered(table, limit)
           /\ \A w \in DOMAIN items : Len(items[w]) \in 1..chunk_size
           /\ \A w \in 1..(Len(items) - 1) : Len(items[w]) = chunk_size
           /\ Len(items) * chunk_size < Len(SelectOrdered(table, limit)) + chunk_size

\* gapped identifiers cut into two full chunks and a shorter last one
C29_Witness ==
    /\ Chunked
    /\ Gapped
    /\ Len(outcome.chunks) = 3
    /\ outcome.params.chunk_size = 2
    /\ Len(outcome.chunks[3]) = 1
    /\ outcome.chunks[1][2] + 1 < outcome.chunks[2][1]


(***************************************************************************)
(* SpecMerge: _merge_result on every combination of a strategy result      *)
(* (keys present or absent, self-reported values) and a ProfileStats.      *)
(* Durations avoid exact rounding ties (no millisecond value ending in 5). *)
(***************************************************************************)
EmptyDict == [k \in {} |-> 0]

\* the key absent, or present with one of the values
OptKey(k, values) == {EmptyDict} \cup {[x \in {k} |-> v] : v \in values}

MergeExceptions == {[type |-> "RuntimeError", msg |-> "intentional failure"]}

MergeResults ==
    {r1 @@ r2 @@ r3 @@ r4 @@ r5 :
        r1 \in OptKey("rows", {0, 7, 100}),
        r2 \in OptKey("duration_seconds", {1000}),
        r3 \in OptKey("throughput_rows_per_sec", {10000}),
        r4 \in OptKey("peak_rss_bytes", {None, Some(999)}),
        r5 \in OptKey("cpu_percent", {Some(9990)})}
    \cup {FailureResult(e, "tolerant") : e \in MergeExceptions}

MergeStats ==
    {ProfileStats("test", 1000, 1000 + d, rss, cpu) :
        d \in {0, 4, 1234, 2000},
        rss \in {None, Some(123)},
        cpu \in {None, Some(0), Some(1234)}}

InitMerge ==
    /\ m_result \in MergeResults
    /\ m_stats \in MergeStats
    /\ m_merged = None
    /\ StrategiesIdle
    /\ OrchestratorIdle
    /\ ExtIdle

Merge ==
    /\ m_merged = None
    /\ m_merged' = Some(_merge_result(m_result, m_stats))
    /\ UNCHANGED <<m_result, m_stats, stratVars, orchVars, extVars>>

NextMerge == Merge

SpecMerge == InitMerge /\ [][NextMerge]_vars

RowsOf(res) == IF HasKey(res, "rows") THEN res.rows ELSE 0

ProfiledFields(m) ==
    <<m.duration_seconds, m.throughput_rows_per_sec, m.peak_rss_bytes, m.cpu_percent>>

\* rows / duration in hundredths of a row per second, duration in milliseconds
RowsPerSecond(rows, duration_ms) == RoundDiv(rows * 100000, duration_ms)

\* No self-reported value of the four profiled fields survives the merge: any
\* two results with the same row count merge to the same four values, which are
\* those of the stats.
MergeOverridesSelfReported ==
    m_merged # None =>
        /\ \A other \in MergeResults :
              RowsOf(other) = RowsOf(m_result)
                 => ProfiledFields(_merge_result(other, m_stats))
                       = ProfiledFields(m_merged[1])
        /\ m_merged[1].duration_seconds = _round_float(m_stats.duration_seconds)
        /\ m_merged[1].peak_rss_bytes = m_stats.peak_rss_bytes

\* C9: the merged duration, throughput, peak RSS and cpu are determined only by
\* the profiler stats and the row count, and the merged throughput equals rows
\* divided by the profiler duration, or 0 when that duration is 0.
C9_ThroughputIsRowsOverProfilerDuration ==
    m_merged # None =>
        /\ MergeOverridesSelfReported
        /\ m_merged[1].throughput_rows_per_sec =
              IF m_stats.duration_seconds = 0 THEN 0
              ELSE RowsPerSecond(RowsOf(m_result), m_stats.duration_seconds)


(***************************************************************************)
(* Spec: one run_strategies call.                                          *)
(***************************************************************************)
\* measurement runs per strategy range over 1..MaxRuns
MaxRuns == 2

\* config.py: benchmark_concurrency, benchmark_batch_size, benchmark_rows
\* (benchmark_rows scaled by 1/250000: 1_000_000 -> 4)
benchmark_concurrency == 4
benchmark_batch_size == 10000
benchmark_rows == 4
\* multiprocessing.py: default chunk_size
default_chunk_size == 50000

\* _strategy_factories: the registry's names
Registry == {"naive", "cursor_pagination", "async_stream", "multiprocessing",
             "pooled_sync"}

\* available_strategies(): sorted(registry)
available_strategies ==
    <<"async_stream", "cursor_pagination", "multiprocessing", "naive", "pooled_sync">>

\* which registered strategies define close(): pooled_sync.py only
HasClose(name) == name = "pooled_sync"

\* _MULTIPROCESS_STRATEGIES
TrackChildren(name) == name \in {"multiprocessing"}

\* the table the orchestrated strategies read (identifiers with a gap)
OrchTable == {1, 2, 4}

\* the strategy names a call may request
RequestedNames ==
    {<<"naive">>, <<"pooled_sync">>, <<"multiprocessing">>,
     <<"naive", "pooled_sync">>, <<"pooled_sync", "cursor_pagination">>,
     <<"async_stream", "multiprocessing">>,
     <<"naive", "unregistered">>}

Configs ==
    [strategy_names : RequestedNames,
     limit : {Some(0), Some(2), Some(5)},
     persist : BOOLEAN,
     warmup : BOOLEAN,
     runs : 1..MaxRuns,
     concurrency : {None},
     failure_policy : {"tolerant", "strict"}]

\* the exception a strategy's execute may raise (a subclass of Exception): the
\* strategies that open one connection per call fail differently from the
\* pooled and fanned-out ones
ExecuteErrors(name) ==
    IF name \in {"naive", "cursor_pagination"}
    THEN {[type |-> "RuntimeError", msg |-> "intentional failure"]}
    ELSE {[type |-> "OperationalError", msg |-> "connection refused"]}

\* what a pool's close() may raise
CloseError == [type |-> "PoolCloseError", msg |-> "close failed"]

\* requesting a connection from a closed pool
PoolClosedError == [type |-> "PoolClosed", msg |-> "the pool is already closed"]

\* what the profiler measures around one execute
OrchStats(label) ==
    {ProfileStats(label, 1000, 3000, Some(123), Some(1234))}

\* limits: the limits handed to execute so far; payload: <<what was persisted>>
NoLog == [warmup_failed |-> 0, strategy_failed |-> 0, cleanup_failed |-> 0,
          profiled |-> 0, persisted |-> 0, closed_pool_requests |-> 0,
          limits |-> {}, payload |-> None]

\* a strategy instance: `pool` is _pool_instance (0 for None, else the pool's
\* position in pools); executes / cleanups / close_calls count the calls made;
\* exc is what its execute raised, close_failed whether its close() raised
Instance(name, phase) ==
    [name |-> name, phase |-> phase, pool |-> 0,
     executes |-> 0, cleanups |-> 0, close_calls |-> 0,
     exc |-> None, close_failed |-> FALSE]

\* a ConnectionPool: owner is the instance that created it
Pool(owner) == [owner |-> owner, closed |-> FALSE, close_calls |-> 0, connections |-> 0]

\* faulty variant of _get_pool: one pool per process, handed to every instance
_get_pool_Shared(insts, pls, i) ==
    IF insts[i].pool # 0 THEN [created |-> insts, pools |-> pls]
    ELSE IF pls # <<>>
    THEN [created |-> [insts EXCEPT ![i].pool = Len(pls)], pools |-> pls]
    ELSE [created |-> [insts EXCEPT ![i].pool = 1],
          pools |-> <<[owner |-> i, closed |-> FALSE, close_calls |-> 0,
                       connections |-> 0]>>]

\* PooledSyncStrategy._get_pool for instance i: [created, pools] afterwards
_get_pool(insts, pls, i) ==
    IF insts[i].pool # 0 THEN [created |-> insts, pools |-> pls]
    ELSE [created |-> [insts EXCEPT ![i].pool = Len(pls) + 1],
          pools |-> Append(pls, Pool(i))]

\* variant of close: the pool is closed but _pool_instance is kept
PooledSync_close_KeepsPool(insts, pls, i, close_raises) ==
    LET p == insts[i].pool
    IN  IF p = 0 THEN [created |-> insts, pools |-> pls]
        ELSE [created |-> IF close_raises
                          THEN [insts EXCEPT ![i].close_failed = TRUE]
                          ELSE insts,
              pools |-> [pls EXCEPT ![p].closed = TRUE,
                                    ![p].close_calls = @ + 1]]

\* PooledSyncStrategy.close for instance i; close_raises: the pool's close() raises.
\* A pool's close() marks the pool closed before anything in it can fail.
PooledSync_close(insts, pls, i, close_raises) ==
    LET p == insts[i].pool
    IN  IF p = 0 THEN [created |-> insts, pools |-> pls]
        ELSE [created |-> IF close_raises
                          THEN [insts EXCEPT ![i].close_failed = TRUE]
                          ELSE [insts EXCEPT ![i].pool = 0],
              pools |-> [pls EXCEPT ![p].closed = TRUE,
                                    ![p].close_calls = @ + 1]]

\* effective_concurrency of _strategy_factories
EffectiveConcurrency(cfg) ==
    IF Truthy(cfg.concurrency) THEN cfg.concurrency[1] ELSE benchmark_concurrency

\* effective_limit = config.limit or settings.benchmark_rows
EffectiveLimit(cfg) == IF Truthy(cfg.limit) THEN cfg.limit[1] ELSE benchmark_rows

\* the StrategyResult dict each strategy builds from what it read
ToStrategyResult(o) ==
    IF o.strategy = "multiprocessing"
    THEN [rows |-> o.rows, peak_rss_bytes |-> None, notes |-> o.strategy,
          error |-> o.error]
    ELSE [rows |-> o.rows, duration_seconds |-> 1, throughput_rows_per_sec |-> 1,
          peak_rss_bytes |-> None, notes |-> o.strategy]

\* a successful execute(limit) of an instance the registry built
StrategyExecute(name, lim, concurrency) ==
    ToStrategyResult(
        CASE name = "naive" -> NaiveStrategy_execute(OrchTable, lim)
          [] name = "cursor_pagination" ->
                CursorPaginationStrategy_execute(OrchTable, lim, benchmark_batch_size)
          [] name = "pooled_sync" ->
                PooledSyncStrategy_execute(OrchTable, lim, benchmark_batch_size)
          [] name = "multiprocessing" ->
                MultiprocessingStrategy_execute(OrchTable, lim, concurrency,
                                                default_chunk_size, {}, FALSE)
          [] name = "async_stream" ->
                AsyncStreamStrategy_execute(OrchTable, lim, benchmark_batch_size,
                                            concurrency))

\* _resolve_strategy_names
_resolve_strategy_names(strategy_names) ==
    LET requested == IF strategy_names = None THEN <<"all">> ELSE strategy_names
    IN  IF Len(requested) = 1 /\ requested[1] = "all"
        THEN available_strategies ELSE requested

InitOrchestrator ==
    /\ config \in Configs
    /\ pc = "start"
    /\ names = <<>>
    /\ idx = 0
    /\ run_num = 0
    /\ created = <<>>
    /\ pools = <<>>
    /\ pending = None
    /\ result = None
    /\ run_results = <<>>
    /\ results = <<>>
    /\ returned = None
    /\ raised = None
    /\ log = NoLog
    /\ StrategiesIdle
    /\ MergeIdle
    /\ ExtIdle

\* faulty variant of the loop over names: last name first
Name_Reversed == names[Len(names) + 1 - idx]

\* for name in names: the name being processed
Name == names[idx]
Cur == Len(created)

\* run_strategies up to its loop over the names
Start ==
    /\ pc = "start"
    /\ names' = _resolve_strategy_names(config.strategy_names)
    /\ idx' = 1
    /\ results' = <<>>
    /\ pc' = IF _resolve_strategy_names(config.strategy_names) = <<>>
             THEN "payload" ELSE "strategy"
    /\ UNCHANGED <<config, run_num, created, pools, pending, result, run_results,
                   returned, raised, log, stratVars, mergeVars, extVars>>

\* the loop body up to the first _resolve_strategy
StrategyHeader ==
    /\ pc = "strategy"
    /\ run_num' = 1
    /\ run_results' = <<>>
    /\ pc' = IF config.warmup THEN "warmup_resolve" ELSE "run_resolve"
    /\ UNCHANGED <<config, names, idx, created, pools, pending, result, results,
                   returned, raised, log, stratVars, mergeVars, extVars>>

\* faulty variant of Resolve: under the tolerant policy an unknown name is
\* passed over and the loop goes on with the next name
Resolve_ToleratesUnknown(phase, next_pc) ==
    /\ IF Name \in Registry
       THEN /\ created' = Append(created, Instance(Name, phase))
            /\ pc' = next_pc
            /\ UNCHANGED <<raised, idx>>
       ELSE IF config.failure_policy = "strict"
       THEN /\ raised' = Some([type |-> "ValueError", msg |-> Name])
            /\ pc' = "raised"
            /\ UNCHANGED <<created, idx>>
       ELSE /\ idx' = idx + 1
            /\ pc' = IF idx + 1 > Len(names) THEN "payload" ELSE "strategy"
            /\ UNCHANGED <<created, raised>>
    /\ UNCHANGED <<config, names, run_num, pools, pending, result, run_results,
                   results, returned, log, stratVars, mergeVars, extVars>>

\* _resolve_strategy: a fresh instance, or ValueError for an unknown name
Resolve(phase, next_pc) ==
    /\ IF Name \in Registry
       THEN /\ created' = Append(created, Instance(Name, phase))
            /\ pc' = next_pc
            /\ UNCHANGED raised
       ELSE /\ raised' = Some([type |-> "ValueError", msg |-> Name])
            /\ pc' = "raised"
            /\ UNCHANGED created
    /\ UNCHANGED <<config, names, idx, run_num, pools, pending, result, run_results,
                   results, returned, log, stratVars, mergeVars, extVars>>

WarmupResolve == pc = "warmup_resolve" /\ Resolve("warmup", "warmup_execute")

RunResolve == pc = "run_resolve" /\ Resolve("run", "run_execute")


\* strategy.execute(limit) on instance i: every way it can end.  pooled_sync
\* first takes its pool (building the DSN or the pool may raise, leaving the
\* instance without one) and a connection from it; then, for every strategy,
\* the read either succeeds or raises.
ExecuteOutcomes(insts, pls, i, lim, concurrency) ==
    LET name == insts[i].name
        counted == [insts EXCEPT ![i].executes = @ + 1]
        reads(cr, pl) ==
            {[created |-> cr, pools |-> pl, exc |-> None, closed_pool |-> 0,
              res |-> Some(StrategyExecute(name, lim, concurrency))]}
            \cup {[created |-> [cr EXCEPT ![i].exc = Some(e)], pools |-> pl,
                   exc |-> Some(e), closed_pool |-> 0, res |-> None] :
                     e \in ExecuteErrors(name)}
    IN  IF name = "pooled_sync"
        THEN LET got == _get_pool(counted, pls, i)
                 p == got.created[i].pool
             IN  IF got.pools[p].closed
                 THEN {[created |-> [got.created EXCEPT
                                       ![i].exc = Some(PoolClosedError)],
                        pools |-> got.pools,
                        exc |-> Some(PoolClosedError), closed_pool |-> 1,
                        res |-> None]}
                 ELSE reads(got.created,
                            [got.pools EXCEPT ![p].connections = @ + 1])
                      \cup (IF insts[i].pool # 0 THEN {}
                            ELSE {[created |-> [counted EXCEPT ![i].exc = Some(e)],
                                   pools |-> pls, exc |-> Some(e),
                                   closed_pool |-> 0, res |-> None] :
                                     e \in ExecuteErrors(name)})
        ELSE reads(counted, pls)

\* _cleanup_strategy(strategy) on instance i: every way it can end; failed = 1
\* when close() raised
CleanupOutcomes(insts, pls, i) ==
    LET counted == [insts EXCEPT ![i].cleanups = @ + 1]
    IN  IF ~HasClose(insts[i].name)
        THEN {[created |-> counted, pools |-> pls, failed |-> 0]}
        ELSE LET called == [counted EXCEPT ![i].close_calls = @ + 1]
             IN  {[created |-> PooledSync_close(called, pls, i, close_raises).created,
                   pools |-> PooledSync_close(called, pls, i, close_raises).pools,
                   failed |-> IF close_raises THEN 1 ELSE 0] :
                     close_raises \in IF called[i].pool # 0 THEN BOOLEAN ELSE {FALSE}}

\* faulty variants of the exception handling below
CleanupFailurePropagates_Always == TRUE
WarmupFailureIsFatal_WhenStrict(failure_policy) == failure_policy = "strict"
CleanupAfterRun_OnlyOnSuccess(exc) == exc = None
Reraises_Always(failure_policy) == TRUE
Reraises_Never(failure_policy) == FALSE
CleanupAfterWarmup_Never(exc) == FALSE

\* _cleanup_strategy: `except Exception` around close() logs and swallows
CleanupFailurePropagates == FALSE

\* _run_warmup: `except Exception` logs a warning under either failure policy
WarmupFailureIsFatal(failure_policy) == FALSE

\* _run_warmup and _run_measurement_runs: cleanup sits in `finally`
CleanupAfterWarmup(exc) == TRUE
CleanupAfterRun(exc) == TRUE

\* _profiled_execute: `if failure_policy == "strict": raise`
Reraises(failure_policy) == failure_policy = "strict"

\* _run_warmup: strategy.execute(limit) inside try/except; the result is dropped
WarmupExecute ==
    /\ pc = "warmup_execute"
    /\ \E o \in ExecuteOutcomes(created, pools, Cur, EffectiveLimit(config),
                                EffectiveConcurrency(config)) :
          /\ created' = o.created
          /\ pools' = o.pools
          /\ pending' = IF o.exc # None /\ WarmupFailureIsFatal(config.failure_policy)
                        THEN o.exc ELSE None
          /\ log' = [log EXCEPT
                       !.warmup_failed = @ + (IF o.exc # None THEN 1 ELSE 0),
                       !.closed_pool_requests = @ + o.closed_pool,
                       !.limits = @ \cup {EffectiveLimit(config)}]
    /\ pc' = "warmup_cleanup"
    /\ UNCHANGED <<config, names, idx, run_num, result, run_results, results,
                   returned, raised, stratVars, mergeVars, extVars>>

\* what leaves a try/finally: the exception of the finally block if it raised,
\* else the one in flight
AfterCleanup(in_flight, cleanup_failed) ==
    IF cleanup_failed = 1 /\ CleanupFailurePropagates THEN Some(CloseError)
    ELSE in_flight

\* _run_warmup: finally: _cleanup_strategy(strategy)
WarmupCleanup ==
    /\ pc = "warmup_cleanup"
    /\ \E c \in IF CleanupAfterWarmup(pending)
                THEN CleanupOutcomes(created, pools, Cur)
                ELSE {[created |-> created, pools |-> pools, failed |-> 0]} :
          /\ created' = c.created
          /\ pools' = c.pools
          /\ log' = [log EXCEPT !.cleanup_failed = @ + c.failed]
          /\ IF AfterCleanup(pending, c.failed) # None
             THEN /\ raised' = AfterCleanup(pending, c.failed)
                  /\ pc' = "raised"
             ELSE /\ pc' = "run_resolve"
                  /\ UNCHANGED raised
    /\ pending' = None
    /\ UNCHANGED <<config, names, idx, run_num, result, run_results, results,
                   returned, stratVars, mergeVars, extVars>>

\* _profiled_execute(strategy, effective_limit, failure_policy)
RunExecute ==
    /\ pc = "run_execute"
    /\ \E o \in ExecuteOutcomes(created, pools, Cur, EffectiveLimit(config),
                                EffectiveConcurrency(config)),
          stats \in OrchStats(Name) :
          /\ created' = o.created
          /\ pools' = o.pools
          /\ log' = [log EXCEPT
                       !.profiled = @ + 1,
                       !.strategy_failed = @ + (IF o.exc # None THEN 1 ELSE 0),
                       !.closed_pool_requests = @ + o.closed_pool,
                       !.limits = @ \cup {EffectiveLimit(config)}]
          /\ IF o.exc = None
             THEN /\ result' = Some(_merge_result(o.res[1], stats))
                  /\ pending' = None
             ELSE IF Reraises(config.failure_policy)
             THEN /\ result' = None
                  /\ pending' = o.exc
             ELSE /\ result' = Some(_merge_result(
                                       FailureResult(o.exc[1], config.failure_policy),
                                       stats))
                  /\ pending' = None
    /\ pc' = "run_cleanup"
    /\ UNCHANGED <<config, names, idx, run_num, run_results, results, returned,
                   raised, stratVars, mergeVars, extVars>>

\* _run_measurement_runs: finally: _cleanup_strategy(strategy); then the result
\* is tagged and appended, or the exception in flight leaves run_strategies
RunCleanup ==
    /\ pc = "run_cleanup"
    /\ \E c \in IF CleanupAfterRun(pending)
                THEN CleanupOutcomes(created, pools, Cur)
                ELSE {[created |-> created, pools |-> pools, failed |-> 0]} :
          /\ created' = c.created
          /\ pools' = c.pools
          /\ log' = [log EXCEPT !.cleanup_failed = @ + c.failed]
          /\ IF AfterCleanup(pending, c.failed) # None
             THEN /\ raised' = AfterCleanup(pending, c.failed)
                  /\ pc' = "raised"
                  /\ UNCHANGED <<run_results, run_num>>
             ELSE /\ run_results' =
                        Append(run_results,
                               Updated(result[1],
                                       [strategy |-> Name,
                                        limit |-> EffectiveLimit(config),
                                        run |-> run_num]))
                  /\ IF run_num < config.runs
                     THEN /\ run_num' = run_num + 1
                          /\ pc' = "run_resolve"
                     ELSE /\ pc' = "combine"
                          /\ UNCHANGED run_num
                  /\ UNCHANGED raised
    /\ pending' = None
    /\ result' = None
    /\ UNCHANGED <<config, names, idx, results, returned, stratVars, mergeVars, extVars>>

SeqMin(s) == CHOOSE x \in {s[k] : k \in DOMAIN s} : \A k \in DOMAIN s : x <= s[k]
SeqMax(s) == CHOOSE x \in {s[k] : k \in DOMAIN s} : \A k \in DOMAIN s : x >= s[k]

\* _aggregate_runs: the summary record of several runs.  Of each statistics
\* dict the model carries min and max; rows is the first run's; cpu_percent and
\* peak_rss_bytes appear when some run reported a truthy value.
_aggregate_runs(rr) ==
    LET durations == [k \in DOMAIN rr |-> rr[k].duration_seconds]
        throughputs == [k \in DOMAIN rr |-> rr[k].throughput_rows_per_sec]
        IsTruthy(opt) == Truthy(opt)
        cpu_percents ==
            LET kept == SelectSeq([k \in DOMAIN rr |-> rr[k].cpu_percent], IsTruthy)
            IN  [k \in DOMAIN kept |-> kept[k][1]]
        peak_rss_values ==
            LET kept == SelectSeq([k \in DOMAIN rr |-> rr[k].peak_rss_bytes], IsTruthy)
            IN  [k \in DOMAIN kept |-> kept[k][1]]
        stats(values) == [min |-> SeqMin(values), max |-> SeqMax(values)]
        aggregated == [duration_seconds |-> stats(durations),
                       throughput_rows_per_sec |-> stats(throughputs),
                       rows |-> rr[1].rows]
        with_cpu == IF cpu_percents # <<>>
                    THEN Updated(aggregated, [cpu_percent |-> stats(cpu_percents)])
                    ELSE aggregated
    IN  IF peak_rss_values # <<>>
        THEN Updated(with_cpu, [peak_rss_bytes |-> stats(peak_rss_values)])
        ELSE with_cpu

\* faulty variant of _combine_strategy_results: the per-run records, never an
\* aggregate
_combine_strategy_results_Flat(name, effective_limit, runs, rr) == rr

\* faulty variant of _combine_strategy_results: an aggregate whatever the number
\* of runs
_combine_strategy_results_Always(name, effective_limit, runs, rr) ==
    <<[rows |-> rr[1].rows, strategy |-> name, limit |-> effective_limit,
       runs |-> runs, individual_runs |-> rr]>>

\* _combine_strategy_results
_combine_strategy_results(name, effective_limit, runs, rr) ==
    IF runs = 1 THEN rr
    ELSE <<Updated(_aggregate_runs(rr),
                   [strategy |-> name, limit |-> effective_limit, runs |-> runs,
                    individual_runs |-> rr])>>

\* results.extend(_combine_strategy_results(...)) and the next name
Combine ==
    /\ pc = "combine"
    /\ results' = results \o _combine_strategy_results(Name, EffectiveLimit(config),
                                                       config.runs, run_results)
    /\ idx' = idx + 1
    /\ pc' = IF idx + 1 > Len(names) THEN "payload" ELSE "strategy"
    /\ UNCHANGED <<config, names, run_num, created, pools, pending, result,
                   run_results, returned, raised, log, stratVars, mergeVars, extVars>>

\* _build_payload (without its timestamp)
_build_payload(effective_limit, strategy_names, strategy_results) ==
    [limit |-> effective_limit, strategies |-> strategy_names,
     results |-> strategy_results]

\* faulty variant of Persists: the payload is written whatever the flag says
Persists_Always(cfg) == TRUE

\* `if config.persist: _persist_results(payload, ...)`
Persists(cfg) == cfg.persist

\* _build_payload, _persist_results when config.persist, return results
Finish ==
    /\ pc = "payload"
    /\ log' = IF Persists(config)
              THEN [log EXCEPT !.persisted = @ + 1,
                               !.payload = Some(_build_payload(EffectiveLimit(config),
                                                               names, results))]
              ELSE log
    /\ returned' = Some(results)
    /\ pc' = "returned"
    /\ UNCHANGED <<config, names, idx, run_num, created, pools, pending, result,
                   run_results, results, raised, stratVars, mergeVars, extVars>>

Next ==
    \/ Start
    \/ StrategyHeader
    \/ WarmupResolve
    \/ WarmupExecute
    \/ WarmupCleanup
    \/ RunResolve
    \/ RunExecute
    \/ RunCleanup
    \/ Combine
    \/ Finish

Spec == InitOrchestrator /\ [][Next]_vars


(***************************************************************************)
(* Properties of run_strategies                                            *)
(***************************************************************************)
Started == pc # "idle"
Ended == pc \in {"returned", "raised"}
InFlight == pc \in {"warmup_execute", "warmup_cleanup", "run_execute", "run_cleanup"}
Tolerant == Started /\ config.failure_policy = "tolerant"
Strict == Started /\ config.failure_policy = "strict"
Instances == DOMAIN created
RunInstances == {i \in Instances : created[i].phase = "run"}
WarmupInstances == {i \in Instances : created[i].phase = "warmup"}
\* run_strategies was left by an exception other than the unknown-name ValueError
RaisedByStrategy == raised # None /\ raised[1].type # "ValueError"

\* the record has the shape of the zero-row substitute for exception exc
IsFailureRecord(r, exc) ==
    /\ r.rows = 0
    /\ HasKey(r, "error") /\ r.error = exc.msg
    /\ r.notes = "Execution failed in tolerant mode; run continued."
    /\ HasKey(r, "extra")
    /\ r.extra = [failed |-> TRUE, error_type |-> exc.type,
                  failure_policy |-> "tolerant"]

MarkedFailed(r) ==
    /\ r.rows = 0
    /\ HasKey(r, "extra") /\ r.extra.failed
    /\ HasKey(r, "error") /\ r.error \in {e.msg : e \in ExecuteErrors(r.strategy) \cup {PoolClosedError}}

\* the per-run records an entry of results stands for
RunsOf(entry) == IF HasKey(entry, "individual_runs") THEN entry.individual_runs
                 ELSE <<entry>>
\* every per-run record recorded so far, in order
RecordedRuns ==
    Flatten([k \in DOMAIN results |-> RunsOf(results[k])])
        \o (IF pc \in {"strategy", "payload", "returned"} THEN <<>> ELSE run_results)

\* C3: the orchestrator's close step runs exactly once on every instance it
\* creates (one per warmup, one per measurement run), whether execute
\* succeeded or raised: close() is called once on an instance that defines it
\* (only pooled_sync does), never twice, and when run_strategies is left no
\* instance is left without its close step.
C3_CloseOncePerInstance ==
    Started =>
        /\ \A i \in Instances :
              /\ created[i].cleanups <= 1
              /\ created[i].executes <= 1
              /\ created[i].close_calls =
                    IF HasClose(created[i].name) THEN created[i].cleanups ELSE 0
              /\ (i < Cur \/ ~InFlight) =>
                    (created[i].cleanups = 1 /\ created[i].executes = 1)
        /\ pc = "returned" =>
              Len(created) = Len(names) * (config.runs + IF config.warmup THEN 1 ELSE 0)

\* C3 witness: a call with warmup and several runs has returned; one
\* pooled_sync instance's execute raised, another's succeeded, a warmup
\* instance exists, and close() was called once on each
C3_Witness ==
    /\ pc = "returned" /\ config.warmup /\ config.runs >= 2
    /\ \E i, j \in RunInstances, w \in WarmupInstances :
          /\ created[i].name = "pooled_sync" /\ created[i].exc # None
          /\ created[j].name = "pooled_sync" /\ created[j].exc = None
          /\ created[w].name = "pooled_sync"
          /\ created[i].close_calls = 1 /\ created[j].close_calls = 1
          /\ created[w].close_calls = 1

\* C4: under the tolerant policy a measurement run whose execute raises yields
\* a record with rows 0, error = the exception's message, the explanatory
\* notes, and extra = {failed: True, error_type, failure_policy}; the call is
\* never aborted by it: the remaining runs and strategies take place.
C4_TolerantFailureRecord ==
    Tolerant =>
        /\ (pc = "run_cleanup" /\ created[Cur].exc # None) =>
              (result # None /\ IsFailureRecord(result[1], created[Cur].exc[1]))
        /\ pending = None
        /\ ~RaisedByStrategy
        /\ LET done == {i \in RunInstances : created[i].cleanups = 1}
               nth(k) == CHOOSE i \in done : Cardinality({j \in done : j < i}) = k - 1
           IN  /\ Len(RecordedRuns) = Cardinality(done)
               /\ \A k \in DOMAIN RecordedRuns :
                     IF created[nth(k)].exc # None
                     THEN IsFailureRecord(RecordedRuns[k], created[nth(k)].exc[1])
                     ELSE ~HasKey(RecordedRuns[k], "extra")
        /\ (pc = "returned" /\ names # <<>>) =>
              Cardinality(RunInstances) = Len(names) * config.runs

\* C4 witness: a tolerant call over two strategies has returned although the
\* first run of the first strategy raised; later runs succeeded
C4_Witness ==
    /\ Tolerant /\ pc = "returned" /\ Len(names) = 2 /\ config.runs >= 2
    /\ \E i, j \in RunInstances :
          /\ i < j /\ created[i].exc # None /\ created[j].exc = None
          /\ created[i].name # created[j].name
    /\ HasKey(results[1], "individual_runs")
    /\ IsFailureRecord(results[1].individual_runs[1],
                       [type |-> "OperationalError", msg |-> "connection refused"])

AllRunsFailed ==
    /\ pc = "returned" /\ names # <<>>
    /\ log.strategy_failed = Len(names) * config.runs

\* C5 (as stated): tolerant policy, every execute raising: the returned list
\* holds one failed record per configured run, for every runs >= 1.
C5_OneResultPerRun ==
    (Tolerant /\ AllRunsFailed) =>
        /\ Len(returned[1]) = Len(names) * config.runs
        /\ \A k \in DOMAIN returned[1] : MarkedFailed(returned[1][k])

\* C5 (amended): tolerant policy, every execute raising: the call returns; with
\* runs = 1 the list holds that one failed record per strategy; with runs > 1
\* it holds one aggregate per strategy, carrying neither error nor extra, whose
\* individual_runs holds `runs` records, each with rows 0, error set and
\* extra.failed True.
C5_FailedRunsUnderAggregate ==
    (Tolerant /\ AllRunsFailed) =>
        /\ returned # None
        /\ Len(returned[1]) = Len(names)
        /\ \A k \in DOMAIN returned[1] :
              LET r == returned[1][k]
              IN  IF config.runs = 1 THEN MarkedFailed(r)
                  ELSE /\ r.rows = 0
                       /\ r.runs = config.runs
                       /\ ~HasKey(r, "error") /\ ~HasKey(r, "extra")
                       /\ Len(r.individual_runs) = config.runs
                       /\ \A j \in DOMAIN r.individual_runs :
                             /\ MarkedFailed(r.individual_runs[j])
                             /\ r.individual_runs[j].run = j

\* C5 witness: a tolerant call with several runs, all raising, has returned
C5_Witness ==
    /\ Tolerant /\ AllRunsFailed /\ config.runs >= 2
    /\ Len(returned[1]) = Len(names)
    /\ Len(returned[1][1].individual_runs) = config.runs

\* C6: under the strict policy the first measurement execute that raises
\* leaves run_strategies with that very exception; the failed instance has had
\* its close step (close() once when it defines one) before that; it is the
\* last instance created and nothing is executed or recorded after it.
C6_StrictAborts ==
    Strict =>
        /\ \A i \in RunInstances :
              created[i].exc # None => (i = Cur /\ pc \in {"run_cleanup", "raised"})
        /\ pc = "run_cleanup" => (pending = created[Cur].exc /\
                                  (pending # None => result = None))
        /\ RaisedByStrategy =>
              /\ Cur \in RunInstances
              /\ raised = created[Cur].exc
              /\ created[Cur].cleanups = 1 /\ created[Cur].executes = 1
              /\ created[Cur].close_calls = IF HasClose(created[Cur].name) THEN 1 ELSE 0
              /\ returned = None
              /\ \A k \in DOMAIN RecordedRuns : ~HasKey(RecordedRuns[k], "extra")
        /\ log.strategy_failed <= 1
        /\ pc = "returned" => log.strategy_failed = 0

\* C6 witness: a strict call over two strategies with several runs was left by
\* the exception of the first strategy's first run, a pooled_sync instance
\* closed once; the second run and the second strategy never started
C6_Witness ==
    /\ Strict /\ pc = "raised" /\ RaisedByStrategy
    /\ Len(names) = 2 /\ idx = 1 /\ config.runs >= 2 /\ run_num = 1
    /\ created[Cur].name = "pooled_sync" /\ created[Cur].close_calls = 1
    /\ raised = Some([type |-> "OperationalError", msg |-> "connection refused"])
    /\ Cardinality(RunInstances) = 1

\* C7: a warmup adds no per-run record and is not profiled; an exception of
\* the warmup execute is only logged under either policy, never leaves
\* run_strategies, and the strategy's measurement runs follow.
C7_WarmupIsDiscarded ==
    Started =>
        /\ log.profiled = Cardinality({i \in RunInstances : created[i].executes = 1})
        /\ Len(RecordedRuns) <= Cardinality(RunInstances)
        /\ log.warmup_failed =
              Cardinality({i \in WarmupInstances : created[i].exc # None})
        /\ log.strategy_failed =
              Cardinality({i \in RunInstances : created[i].exc # None})
        /\ pc \in {"warmup_execute", "warmup_cleanup"} => (pending = None /\ result = None)
        /\ RaisedByStrategy => Cur \in RunInstances
        /\ \A w \in WarmupInstances :
              /\ (w < Cur) => (w + 1 \in RunInstances /\
                               created[w + 1].name = created[w].name)
              /\ pc = "returned" =>
                    \A k \in 1..config.runs :
                       /\ w + k \in RunInstances
                       /\ created[w + k].name = created[w].name
                       /\ created[w + k].executes = 1
        /\ pc = "combine" => Len(run_results) = config.runs

\* C7 witness: a strict call has returned its results although a warmup
\* execute raised; the runs after it executed
C7_Witness ==
    /\ Strict /\ pc = "returned" /\ config.runs >= 2
    /\ log.warmup_failed >= 1
    /\ \E w \in WarmupInstances :
          /\ created[w].exc # None
          /\ created[w + 1].executes = 1 /\ created[w + 1].exc = None
    /\ Len(RecordedRuns) = Len(names) * config.runs

\* C8: an exception raised by close() never leaves run_strategies and never
\* changes what is recorded: every measurement run that had its close step is
\* recorded, except the one whose execute aborted a strict call, and the
\* exception leaving a strict call is the one execute raised.
C8_CloseFailureIsSwallowed ==
    Started =>
        /\ raised # Some(CloseError)
        /\ RaisedByStrategy => (Cur \in RunInstances /\ raised = created[Cur].exc)
        /\ log.cleanup_failed =
              Cardinality({i \in Instances : created[i].close_failed})
        /\ Len(RecordedRuns) =
              Cardinality({i \in RunInstances : created[i].cleanups = 1})
                 - (IF RaisedByStrategy THEN 1 ELSE 0)
        /\ \A i \in RunInstances :
              (created[i].close_failed /\ created[i].exc = None /\ i < Cur) =>
                 i + 1 \in RunInstances \/ created[i + 1].name # created[i].name

\* C8 witness: a strict call was left by the exception its execute raised while
\* the close() after it raised too; an earlier successful run whose close()
\* raised is recorded
C8_Witness ==
    /\ Strict /\ pc = "raised" /\ RaisedByStrategy
    /\ created[Cur].close_failed
    /\ raised = created[Cur].exc
    /\ \E i \in RunInstances :
          /\ i < Cur /\ created[i].close_failed /\ created[i].exc = None
    /\ Len(RecordedRuns) >= 1

\* the instances that obtained a pool
PoolOwners == {pools[p].owner : p \in DOMAIN pools}

ExpectedInstances(requested, warmup, runs) ==
    Flatten([k \in DOMAIN requested |->
               (IF warmup THEN <<[name |-> requested[k], phase |-> "warmup", run |-> 0]>>
                ELSE <<>>)
               \o [r \in 1..runs |-> [name |-> requested[k], phase |-> "run", run |-> r]]])

\* C17: the requested names are processed one after another in the requested
\* order: the instances are created in the order name by name, warmup first,
\* then runs 1..runs, each created only after the previous one had its execute
\* and its close step; no two instances are ever in flight; the returned
\* entries follow the requested order and the per-run records of a strategy
\* carry run numbers 1..runs in execution order.
C17_SequentialInRequestedOrder ==
    (Started /\ pc # "start") =>
        LET expected == ExpectedInstances(config.strategy_names, config.warmup,
                                          config.runs)
        IN  /\ Len(created) <= Len(expected)
            /\ \A i \in Instances :
                  /\ created[i].name = expected[i].name
                  /\ created[i].phase = expected[i].phase
                  /\ i < Cur => (created[i].executes = 1 /\ created[i].cleanups = 1)
            /\ pc = "returned" => Len(created) = Len(expected)
            /\ Len(results) <= Len(config.strategy_names)
            /\ \A k \in DOMAIN results :
                  /\ results[k].strategy = config.strategy_names[k]
                  /\ \A j \in DOMAIN RunsOf(results[k]) :
                        /\ RunsOf(results[k])[j].run = j
                        /\ RunsOf(results[k])[j].strategy = config.strategy_names[k]
            /\ \A j \in DOMAIN run_results : run_results[j].run = j
            /\ pc \in {"run_resolve", "run_execute", "run_cleanup"} =>
                  /\ Len(run_results) = run_num - 1
                  /\ Cardinality({i \in RunInstances : created[i].cleanups = 1})
                        = Len(results) * config.runs + run_num - 1

\* C17 witness: a call for two different strategies with warmup and several
\* runs has returned
C17_Witness ==
    /\ pc = "returned" /\ config.warmup /\ config.runs >= 2
    /\ Len(config.strategy_names) = 2
    /\ config.strategy_names[1] # config.strategy_names[2]
    /\ Len(returned[1]) = 2
    /\ returned[1][2].strategy = config.strategy_names[2]
    /\ created[1].phase = "warmup" /\ created[2].phase = "run"
    /\ created[Len(created)].name = config.strategy_names[2]

\* C18: aggregation is applied exactly when runs > 1: with runs = 1 every
\* returned entry is the strategy's per-run record itself; with runs > 1 there
\* is one summary per strategy whose runs field is the configured count and
\* whose individual_runs holds that many per-run records.
C18_AggregatedIffSeveralRuns ==
    pc = "returned" =>
        /\ Len(returned[1]) = Len(names)
        /\ \A k \in DOMAIN returned[1] :
              LET r == returned[1][k]
              IN  IF config.runs = 1
                  THEN /\ ~HasKey(r, "individual_runs") /\ ~HasKey(r, "runs")
                       /\ HasKey(r, "run") /\ r.run = 1
                       /\ HasKey(r, "profile")
                  ELSE /\ HasKey(r, "runs") /\ r.runs = config.runs
                       /\ HasKey(r, "individual_runs")
                       /\ Len(r.individual_runs) = config.runs
                       /\ ~HasKey(r, "run") /\ ~HasKey(r, "profile")
                       /\ \A j \in DOMAIN r.individual_runs :
                             /\ HasKey(r.individual_runs[j], "profile")
                             /\ ~HasKey(r.individual_runs[j], "individual_runs")

\* C18 witness: a call with several runs and successful executes has returned
\* one summary per strategy
C18_Witness ==
    /\ pc = "returned" /\ config.runs >= 2 /\ Len(names) = 2
    /\ log.strategy_failed = 0
    /\ Len(returned[1]) = 2
    /\ returned[1][1].runs = config.runs
    /\ returned[1][1].rows > 0


(***************************************************************************)
(* SpecWorkers: MultiprocessingStrategy.execute step by step: the          *)
(* coordinator selects the identifiers, hands the work items to a pool of  *)
(* `processes` workers and waits for all results with a ceiling of 600     *)
(* seconds.  A worker may finish, fail (its exception is caught inside     *)
(* _fetch_ids) or never finish.                                            *)
(***************************************************************************)
\* work items of one execute range up to MaxWorkItems
MaxWorkItems == 5
\* map_async(...).get(timeout=600), in seconds
WaitCeilingSeconds == 600

\* tables of 0..MaxWorkItems rows whose identifiers skip 3
WorkerTables == {{i + (IF i >= 3 THEN 1 ELSE 0) : i \in 1..n} : n \in 0..MaxWorkItems}

\* the frame of the SpecWorkers actions
WorkersFrame == <<stratVars, orchVars, mergeVars, psVars, rgVars, asVars, pfVars,
                  ctxVars, lateVars>>

InitWorkers ==
    /\ mp_table \in WorkerTables
    /\ mp_limit \in {0, 2, MaxWorkItems + 1}
    /\ mp_params \in [processes : {1, 2}, chunk_size : {1, 2}]
    /\ mp_pc = "start"
    /\ mp_items = <<>>
    /\ mp_status = <<>>
    /\ mp_trace = <<>>
    /\ mp_result = NoOutcome
    /\ StrategiesIdle
    /\ OrchestratorIdle
    /\ MergeIdle
    /\ PooledIdle
    /\ RangesIdle
    /\ AsyncIdle
    /\ ProfilerIdle
    /\ ContextsIdle
    /\ LateIdle

\* what execute returns given which workers failed and whether the wait timed out
WorkersResult(timed_out) ==
    MultiprocessingStrategy_execute(mp_table, mp_limit, mp_params.processes,
                                    mp_params.chunk_size,
                                    {w \in DOMAIN mp_status : mp_status[w] = "failed"},
                                    timed_out)

\* the coordinator's SELECT id ... LIMIT; no ids: return at once; else the
\* work items go to `with ctx.Pool(processes) as pool: pool.map_async(...)`
SelectIds ==
    /\ mp_pc = "start"
    /\ LET ids == SelectOrdered(mp_table, mp_limit)
           items == _make_work_items(ids, mp_params.chunk_size)
       IN  IF ids = <<>>
           THEN /\ mp_result' = WorkersResult(FALSE)
                /\ mp_pc' = "returned"
                /\ UNCHANGED <<mp_items, mp_status, mp_trace>>
           ELSE /\ mp_items' = items
                /\ mp_status' = [w \in DOMAIN items |-> "queued"]
                /\ mp_trace' = <<"Pool", "map_async">>
                /\ mp_pc' = "waiting"
                /\ UNCHANGED mp_result
    /\ UNCHANGED <<mp_table, mp_limit, mp_params, WorkersFrame>>

\* the coordinator's own connection or query raises: execute raises
SelectRaises ==
    /\ mp_pc = "start"
    /\ mp_pc' = "raised"
    /\ mp_result' = StrategyRaised("multiprocessing",
                                   Params(0, mp_params.chunk_size, mp_params.processes, 0))
    /\ UNCHANGED <<mp_table, mp_limit, mp_params, mp_items, mp_status, mp_trace,
                   WorkersFrame>>

PoolAlive == mp_pc = "waiting"

\* a free worker process takes the next queued work item
WorkerStarts ==
    /\ PoolAlive
    /\ Cardinality({w \in DOMAIN mp_status : mp_status[w] = "running"})
          < mp_params.processes
    /\ \E w \in DOMAIN mp_status :
          /\ mp_status[w] = "queued"
          /\ \A v \in 1..(w - 1) : mp_status[v] # "queued"
          /\ mp_status' = [mp_status EXCEPT ![w] = "running"]
    /\ UNCHANGED <<mp_table, mp_limit, mp_params, mp_pc, mp_items, mp_trace,
                   mp_result, WorkersFrame>>

\* _fetch_ids returns (row_count, None)
WorkerSucceeds ==
    /\ PoolAlive
    /\ \E w \in DOMAIN mp_status :
          /\ mp_status[w] = "running"
          /\ mp_status' = [mp_status EXCEPT ![w] = "ok"]
    /\ UNCHANGED <<mp_table, mp_limit, mp_params, mp_pc, mp_items, mp_trace,
                   mp_result, WorkersFrame>>

\* _fetch_ids catches its exception and returns (0, message)
WorkerFails ==
    /\ PoolAlive
    /\ \E w \in DOMAIN mp_status :
          /\ mp_status[w] = "running"
          /\ mp_status' = [mp_status EXCEPT ![w] = "failed"]
    /\ UNCHANGED <<mp_table, mp_limit, mp_params, mp_pc, mp_items, mp_trace,
                   mp_result, WorkersFrame>>

AllDelivered == \A w \in DOMAIN mp_status : mp_status[w] \in {"ok", "failed"}

\* .get(timeout=600) returns the list of results
Collect ==
    /\ mp_pc = "waiting"
    /\ AllDelivered
    /\ mp_trace' = Append(mp_trace, "get")
    /\ mp_pc' = "collected"
    /\ UNCHANGED <<mp_table, mp_limit, mp_params, mp_items, mp_status, mp_result,
                   WorkersFrame>>

\* variant: a failed chunk makes execute raise
Summarise_AbortsOnFailure ==
    /\ mp_pc = "collected"
    /\ mp_trace' = Append(mp_trace, "exit")
    /\ IF \E w \in DOMAIN mp_status : mp_status[w] = "failed"
       THEN /\ mp_pc' = "raised"
            /\ mp_result' = StrategyRaised("multiprocessing",
                               Params(0, mp_params.chunk_size, mp_params.processes, 0))
       ELSE /\ mp_pc' = "returned"
            /\ mp_result' = WorkersResult(FALSE)
    /\ UNCHANGED <<mp_table, mp_limit, mp_params, mp_items, mp_status, WorkersFrame>>

\* the results are summed up (`for count, error in results`), the `with`
\* block is left (Pool.__exit__ terminates the pool) and the result returned
Summarise ==
    /\ mp_pc = "collected"
    /\ mp_trace' = Append(mp_trace, "exit")
    /\ mp_result' = WorkersResult(FALSE)
    /\ mp_pc' = "returned"
    /\ UNCHANGED <<mp_table, mp_limit, mp_params, mp_items, mp_status, WorkersFrame>>

\* .get(timeout=600) raises mp.TimeoutError: the ceiling elapsed first
CeilingElapses ==
    /\ mp_pc = "waiting"
    /\ ~AllDelivered
    /\ mp_trace' = Append(mp_trace, "TimeoutError")
    /\ mp_pc' = "timed_out"
    /\ UNCHANGED <<mp_table, mp_limit, mp_params, mp_items, mp_status, mp_result,
                   WorkersFrame>>

\* variant: the handler lets the TimeoutError go on
TimeoutHandler_Reraises == [calls |-> <<"terminate", "join">>, reraise |-> TRUE]

\* except mp.TimeoutError: what the handler does, in order, and whether it
\* lets the exception go on
TimeoutHandler == [calls |-> <<"terminate", "join">>, reraise |-> FALSE]

\* pool.terminate()
Terminate ==
    /\ mp_pc = "timed_out"
    /\ mp_trace' = Append(mp_trace, TimeoutHandler.calls[1])
    /\ mp_pc' = "terminated"
    /\ UNCHANGED <<mp_table, mp_limit, mp_params, mp_items, mp_status, mp_result,
                   WorkersFrame>>

\* pool.join()
Join ==
    /\ mp_pc = "terminated"
    /\ mp_trace' = Append(mp_trace, TimeoutHandler.calls[2])
    /\ mp_pc' = "joined"
    /\ UNCHANGED <<mp_table, mp_limit, mp_params, mp_items, mp_status, mp_result,
                   WorkersFrame>>

\* errors.append("Workers timed out after 10 minutes"); the `with` block is
\* left and the result returned
ReturnTimedOut ==
    /\ mp_pc = "joined"
    /\ mp_trace' = Append(mp_trace, "exit")
    /\ IF TimeoutHandler.reraise
       THEN /\ mp_pc' = "raised"
            /\ mp_result' = StrategyRaised("multiprocessing",
                               Params(0, mp_params.chunk_size, mp_params.processes, 0))
       ELSE /\ mp_pc' = "returned"
            /\ mp_result' = WorkersResult(TRUE)
    /\ UNCHANGED <<mp_table, mp_limit, mp_params, mp_items, mp_status, WorkersFrame>>

\* the coordinator's steps up to the end of its wait and through the
\* timeout handler
Coordinator ==
    \/ SelectIds
    \/ Collect
    \/ CeilingElapses
    \/ Terminate
    \/ Join
    \/ ReturnTimedOut

NextWorkers ==
    \/ SelectIds
    \/ SelectRaises
    \/ WorkerStarts
    \/ WorkerSucceeds
    \/ WorkerFails
    \/ Collect
    \/ Summarise
    \/ CeilingElapses
    \/ Terminate
    \/ Join
    \/ ReturnTimedOut

\* the coordinator is a running thread whose wait is woken by the results or
\* by the timer: its steps are taken when they stay possible; the workers owe
\* nothing
SpecWorkers == InitWorkers /\ [][NextWorkers]_vars /\ WF_vars(Coordinator)


(***************************************************************************)
(* Properties of SpecWorkers                                               *)
(***************************************************************************)
\* the wait ended with TimeoutError
TimedOut == \E k \in DOMAIN mp_trace : mp_trace[k] = "TimeoutError"

\* execute returned after the pool was used and all results were collected
Collected == mp_pc = "returned" /\ mp_items # <<>> /\ ~TimedOut

\* positions of the failed work items, in work-item order
FailedPositions ==
    SelectSeq([w \in DOMAIN mp_status |-> w], LAMBDA w : mp_status[w] = "failed")

\* C15: a worker failure on a chunk does not make execute raise; the result's
\* rows is the sum of the counts of exactly the chunks without error, the
\* notes carry the number of failed chunks, and error joins the messages of
\* at most the first three failed chunks (None iff no chunk failed).
C15_WorkerFailureIsCaptured ==
    /\ (mp_pc = "raised" => mp_items = <<>>)
    /\ Collected =>
         /\ ~mp_result.raised
         /\ mp_result.rows
               = SumSeq([w \in DOMAIN mp_items |->
                            IF mp_status[w] = "ok" THEN Len(mp_items[w]) ELSE 0])
         /\ mp_result.nerrors = Len(FailedPositions)
         /\ (mp_result.error = None) <=> (FailedPositions = <<>>)
         /\ mp_result.error # None =>
               LET reported == mp_result.error[1]
               IN  /\ Len(reported) = Min2(MaxReportedErrors, Len(FailedPositions))
                   /\ \A k \in DOMAIN reported :
                         LET item == mp_items[FailedPositions[k]]
                         IN  reported[k] = [n |-> Len(item), first |-> item[1],
                                            last |-> item[Len(item)]]

\* four chunks failed, one succeeded, and execute returned
C15_Witness ==
    /\ Collected
    /\ Len(FailedPositions) > MaxReportedErrors
    /\ \E w \in DOMAIN mp_status : mp_status[w] = "ok"
    /\ mp_result.rows > 0

\* the pool calls made after the wait ended with TimeoutError
AfterTimeout ==
    LET k == CHOOSE k \in DOMAIN mp_trace : mp_trace[k] = "TimeoutError"
    IN  SubSeq(mp_trace, k + 1, Len(mp_trace))

IsPrefixOf(a, b) == Len(a) <= Len(b) /\ SubSeq(b, 1, Len(a)) = a

\* C16: execute never waits for its workers without end: when the pool has
\* not delivered all results within the ceiling, the coordinator terminates
\* the pool, then joins it, and returns (never raises) a result whose error
\* records the timeout.
C16_TimeoutIsRecorded ==
    /\ [](TimedOut =>
            /\ mp_pc # "raised"
            /\ IsPrefixOf(AfterTimeout, <<"terminate", "join", "exit">>)
            /\ mp_pc = "returned" =>
                  /\ AfterTimeout = <<"terminate", "join", "exit">>
                  /\ ~mp_result.raised
                  /\ mp_result.error = Some(<<[timeout_minutes |-> 10]>>)
                  /\ mp_result.error[1][1].timeout_minutes * 60 = WaitCeilingSeconds)
    /\ (mp_pc = "waiting") ~> (mp_pc = "collected" \/ (TimedOut /\ mp_pc = "returned"))

\* a worker was still running when the ceiling elapsed, and execute returned
C16_Witness ==
    /\ mp_pc = "returned"
    /\ TimedOut
    /\ \E w \in DOMAIN mp_status : mp_status[w] = "running"
    /\ \E w \in DOMAIN mp_status : mp_status[w] = "ok"


(***************************************************************************)
(* SpecPooled: one PooledSyncStrategy instance; execute and close are      *)
(* called on it in any order.                                              *)
(***************************************************************************)
\* calls made on the instance
MaxCalls == 5

PooledFrame == <<stratVars, orchVars, mergeVars, mpVars, rgVars, asVars, pfVars,
                  ctxVars, lateVars>>

\* PooledSyncStrategy.__init__: _pool_instance = None, no pool exists
InitPooled ==
    /\ ps_created = <<Instance("pooled_sync", "run")>>
    /\ ps_pools = <<>>
    /\ ps_log = <<>>
    /\ StrategiesIdle
    /\ OrchestratorIdle
    /\ MergeIdle
    /\ WorkersIdle
    /\ RangesIdle
    /\ AsyncIdle
    /\ ProfilerIdle
    /\ ContextsIdle
    /\ LateIdle

\* close() calls made on all pools so far
PoolCloseCalls(pls) == SumSeq([p \in DOMAIN pls |-> pls[p].close_calls])

\* one entry of ps_log: pool is the pool the call worked on (0: none)
PooledCall(op, p, exc, insts, pls) ==
    [op |-> op, pool |-> p, raised |-> exc, held |-> insts[1].pool,
     npools |-> Len(pls), pool_closes |-> PoolCloseCalls(pls)]

\* execute(limit): pool = self._get_pool(); with pool.connection() ...;
\* query_error: what the query raises after the connection was obtained
PooledExecute ==
    /\ Len(ps_log) < MaxCalls
    /\ \E query_error \in {None} \cup {Some(e) : e \in ExecuteErrors("pooled_sync")} :
          LET got == _get_pool(ps_created, ps_pools, 1)
              p == got.created[1].pool
              exc == IF got.pools[p].closed THEN Some(PoolClosedError)
                     ELSE query_error
              pls == IF got.pools[p].closed THEN got.pools
                     ELSE [got.pools EXCEPT ![p].connections = @ + 1]
              insts == [got.created EXCEPT ![1].executes = @ + 1, ![1].exc = exc]
          IN  /\ ps_created' = insts
              /\ ps_pools' = pls
              /\ ps_log' = Append(ps_log, PooledCall("execute", p, exc # None, insts, pls))
    /\ UNCHANGED <<PooledFrame>>

\* close(); close_raises: the pool's own close() raises
PooledClose ==
    /\ Len(ps_log) < MaxCalls
    /\ \E close_raises \in BOOLEAN :
          LET p == ps_created[1].pool
              done == PooledSync_close(ps_created, ps_pools, 1, close_raises)
          IN  /\ ps_created' = done.created
              /\ ps_pools' = done.pools
              /\ ps_log' = Append(ps_log,
                                  PooledCall("close", p, p # 0 /\ close_raises,
                                             done.created, done.pools))
    /\ UNCHANGED <<PooledFrame>>

NextPooled ==
    \/ PooledExecute
    \/ PooledClose

SpecPooled == InitPooled /\ [][NextPooled]_vars

(***************************************************************************)
(* Properties of SpecPooled                                                *)
(***************************************************************************)
\* the state before call k: nothing exists before the first call
BeforeCall(k) ==
    IF k = 1 THEN [op |-> "init", pool |-> 0, raised |-> FALSE, held |-> 0,
                   npools |-> 0, pool_closes |-> 0]
    ELSE ps_log[k - 1]

\* no close() of the instance's pool has raised so far
NoFailedClose == \A k \in DOMAIN ps_log : ps_log[k].op = "close" => ~ps_log[k].raised

MaxSplitLimit == 12
MaxSplitConcurrency == 6

RangesFrame == <<stratVars, orchVars, mergeVars, mpVars, psVars, asVars, pfVars,
                  ctxVars, lateVars>>

InitRanges ==
    /\ rg_limit \in 0..MaxSplitLimit
    /\ rg_concurrency \in 1..MaxSplitConcurrency
    /\ rg_ranges = None
    /\ StrategiesIdle
    /\ OrchestratorIdle
    /\ MergeIdle
    /\ WorkersIdle
    /\ PooledIdle
    /\ AsyncIdle
    /\ ProfilerIdle
    /\ ContextsIdle
    /\ LateIdle

SplitLimit ==
    /\ rg_ranges = None
    /\ rg_ranges' = Some(_split_limit_ranges(rg_limit, rg_concurrency))
    /\ UNCHANGED <<rg_limit, rg_concurrency, RangesFrame>>

NextRanges == SplitLimit

SpecRanges == InitRanges /\ [][NextRanges]_vars

\* C12: for limit >= 0 and concurrency >= 1 the ranges returned tile
\* [0, limit): the first starts at 0, each starts where the previous ends,
\* the last ends at limit, none is empty, and limit 0 gives the empty list;
\* (10, 3) gives (0,4),(4,7),(7,10) and (3, 5) gives (0,1),(1,2),(2,3).
C12_RangesTileTheLimit ==
    rg_ranges # None =>
       LET ranges == rg_ranges[1]
       IN  /\ (rg_limit = 0) <=> (ranges = <<>>)
           /\ ranges # <<>> =>
                 /\ ranges[1][1] = 0
                 /\ ranges[Len(ranges)][2] = rg_limit
           /\ \A k \in DOMAIN ranges : ranges[k][1] < ranges[k][2]
           /\ \A k \in 1..(Len(ranges) - 1) : ranges[k + 1][1] = ranges[k][2]
           /\ (rg_limit = 10 /\ rg_concurrency = 3) =>
                 ranges = << <<0, 4>>, <<4, 7>>, <<7, 10>> >>
           /\ (rg_limit = 3 /\ rg_concurrency = 5) =>
                 ranges = << <<0, 1>>, <<1, 2>>, <<2, 3>> >>

\* the limit is not a multiple of the concurrency and is larger than it
C12_Witness ==
    /\ rg_ranges # None
    /\ rg_limit = 10
    /\ rg_concurrency = 3
    /\ Len(rg_ranges[1]) = 3


(***************************************************************************)
(* SpecAsync: one call of AsyncStreamStrategy.execute or execute_async,    *)
(* step by step, with the connection pool of _stream_concurrent.           *)
(***************************************************************************)
AsyncFrame == <<stratVars, orchVars, mergeVars, mpVars, psVars, rgVars, pfVars,
                  ctxVars, lateVars>>

\* str(e).lower(), word by word
LowerWord(w) ==
    CASE w = "AsyncStreamStrategy.execute()" -> "asyncstreamstrategy.execute()"
      [] w = "Use" -> "use"
      [] OTHER -> w

Lower(msg) == [k \in DOMAIN msg |-> LowerWord(msg[k])]

\* `needle in text` for texts kept as lists of words
Contains(text, needle) ==
    \E k \in 0..(Len(text) - Len(needle)) :
       SubSeq(text, k + 1, k + Len(needle)) = needle

\* what asyncio.get_running_loop() raises outside a loop
NoRunningLoopMessage == <<"no", "running", "event", "loop">>

\* what asyncio.run() raises inside a running loop
AsyncioRunMessage ==
    <<"asyncio.run()", "cannot", "be", "called", "from", "a", "running", "event", "loop">>

\* variant: a guard message that itself contains the words looked for
ExecuteGuardMessage_Ambiguous ==
    <<"AsyncStreamStrategy.execute()", "needs", "no", "running", "event", "loop.",
      "Use", "execute_async()", "instead", "when", "no", "running", "event", "loop",
      "can", "be", "guaranteed.">>

\* the message of the RuntimeError execute() raises inside a loop
ExecuteGuardMessage ==
    <<"AsyncStreamStrategy.execute()", "called", "from", "async", "context.",
      "Use", "execute_async()", "instead", "or", "call", "from", "synchronous", "code.">>

RuntimeError(msg) == [type |-> "RuntimeError", msg |-> msg]

\* a failure of the database (connection or query)
DatabaseError == [type |-> "PostgresError", msg |-> <<"query", "failed">>]

\* the limit of the windowed-path test, with the thresholds scaled as there
LARGE_LIMIT == 8

\* no rows, fewer rows than a limit, LARGE_LIMIT rows, and gapped identifiers
AsyncTables ==
    {1..n : n \in {0, 3, LARGE_LIMIT}} \cup {{2 * i : i \in 1..(LARGE_LIMIT - 1)}}

\* requests: the (last_selected_id, window_limit) of each window query;
\* fetched: the identifiers each fan-out has worked on; events: the queries
\* and fan-outs in the order they completed
NoLocals == [path |-> "none", exit |-> "none", ids |-> <<>>, rows_read |-> 0,
             remaining |-> 0, last_selected_id |-> None, windows |-> 0,
             requests |-> <<>>, fetched |-> <<>>, events |-> <<>>]

InitAsync ==
    /\ as_in \in {r \in [entry : {"execute", "execute_async", "_stream_concurrent"},
                         loop_running : BOOLEAN,
                         table : AsyncTables,
                         limit : {-1, 0, 1, CONCURRENT_ID_WINDOW_SIZE,
                                  CONCURRENT_ID_WINDOW_THRESHOLD, LARGE_LIMIT},
                         concurrency : {1, MaxConcurrency - 1},
                         batch_size : {MaxBatch}] :
                     /\ r.entry # "execute" => r.loop_running
                     /\ r.limit < 0 => (r.entry = "_stream_concurrent"
                                        \/ r.concurrency > 1)}
    /\ as_pc = "call"
    /\ as_loops = 0
    /\ as_pool = "none"
    /\ as_conns = 0
    /\ as_loc = NoLocals
    /\ as_exc = None
    /\ as_out = None
    /\ StrategiesIdle
    /\ OrchestratorIdle
    /\ MergeIdle
    /\ WorkersIdle
    /\ PooledIdle
    /\ RangesIdle
    /\ ProfilerIdle
    /\ ContextsIdle
    /\ LateIdle

\* `if self.concurrency > 1` of execute and execute_async
Dispatch == IF as_in.concurrency > 1 THEN "concurrent" ELSE "stream"

\* execute(): the probe for a running loop and the except clause around it;
\* execute_async(): straight to the read; _stream_concurrent awaited directly
Enter ==
    /\ as_pc = "call"
    /\ IF as_in.entry = "_stream_concurrent"
       THEN /\ as_pc' = "concurrent"
            /\ UNCHANGED <<as_loops, as_exc>>
       ELSE IF as_in.entry = "execute_async"
       THEN /\ as_pc' = Dispatch
            /\ UNCHANGED <<as_loops, as_exc>>
       ELSE LET e == IF as_in.loop_running
                     THEN RuntimeError(ExecuteGuardMessage)
                     ELSE RuntimeError(NoRunningLoopMessage)
            IN  IF Contains(Lower(e.msg), <<"no", "running", "event", "loop">>)
                THEN IF as_in.loop_running
                     THEN /\ as_pc' = "raised"
                          /\ as_exc' = Some(RuntimeError(AsyncioRunMessage))
                          /\ UNCHANGED as_loops
                     ELSE /\ as_pc' = Dispatch
                          /\ as_loops' = as_loops + 1
                          /\ UNCHANGED as_exc
                ELSE /\ as_pc' = "raised"
                     /\ as_exc' = Some(e)
                     /\ UNCHANGED as_loops
    /\ UNCHANGED <<as_in, as_pool, as_conns, as_loc, as_out, AsyncFrame>>

\* _stream: asyncpg.connect, one cursor, the connection closed in `finally`
StreamSingle ==
    /\ as_pc = "stream"
    /\ \E fails \in BOOLEAN :
          IF fails
          THEN /\ as_exc' = Some(DatabaseError)
               /\ as_pc' = "failing"
               /\ UNCHANGED as_loc
          ELSE /\ as_loc' = [as_loc EXCEPT !.path = "single",
                               !.rows_read = _stream(as_in.table, as_in.limit,
                                                     as_in.batch_size)]
               /\ as_pc' = "done"
               /\ UNCHANGED as_exc
    /\ as_conns' = as_conns + 1
    /\ UNCHANGED <<as_in, as_loops, as_pool, as_out, AsyncFrame>>

effective_concurrency == Max2(1, Min2(as_in.concurrency, as_in.limit))

\* variant: no fall-back to the single cursor, a pool is created even for an
\* effective concurrency of 1
ConcurrentEntry_AlwaysPools ==
    /\ as_pc = "concurrent"
    /\ IF as_in.limit <= 0
       THEN /\ as_pc' = "done"
            /\ as_loc' = [as_loc EXCEPT !.path = "nothing"]
            /\ UNCHANGED <<as_pool, as_exc>>
       ELSE /\ as_pool' = "open"
            /\ UNCHANGED as_exc
            /\ IF as_in.limit <= CONCURRENT_ID_WINDOW_THRESHOLD
               THEN /\ as_pc' = "prefetch_select"
                    /\ as_loc' = [as_loc EXCEPT !.path = "prefetch"]
               ELSE /\ as_pc' = "window_select"
                    /\ as_loc' = [as_loc EXCEPT !.path = "windowed",
                                    !.remaining = as_in.limit]
    /\ UNCHANGED <<as_in, as_loops, as_conns, as_out, AsyncFrame>>

\* _stream_concurrent up to `try`: the early returns and asyncpg.create_pool
ConcurrentEntry ==
    /\ as_pc = "concurrent"
    /\ IF as_in.limit <= 0
       THEN /\ as_pc' = "done"
            /\ as_loc' = [as_loc EXCEPT !.path = "nothing"]
            /\ UNCHANGED <<as_pool, as_exc>>
       ELSE IF effective_concurrency <= 1
       THEN /\ as_pc' = "stream"
            /\ UNCHANGED <<as_pool, as_loc, as_exc>>
       ELSE \E fails \in BOOLEAN :
               IF fails
               THEN /\ as_pc' = "failing"
                    /\ as_exc' = Some(DatabaseError)
                    /\ UNCHANGED <<as_pool, as_loc>>
               ELSE /\ as_pool' = "open"
                    /\ UNCHANGED as_exc
                    /\ IF as_in.limit <= CONCURRENT_ID_WINDOW_THRESHOLD
                       THEN /\ as_pc' = "prefetch_select"
                            /\ as_loc' = [as_loc EXCEPT !.path = "prefetch"]
                       ELSE /\ as_pc' = "window_select"
                            /\ as_loc' = [as_loc EXCEPT !.path = "windowed",
                                            !.remaining = as_in.limit]
    /\ UNCHANGED <<as_in, as_loops, as_conns, as_out, AsyncFrame>>

\* the identifier selection of the prefetch path
SelectPrefetch ==
    /\ as_pc = "prefetch_select"
    /\ \E fails \in BOOLEAN :
          IF fails
          THEN /\ as_exc' = Some(DatabaseError)
               /\ as_loc' = [as_loc EXCEPT !.exit = "select_raised"]
               /\ as_pc' = "finally"
          ELSE /\ as_loc' = [as_loc EXCEPT !.ids = SelectOrdered(as_in.table, as_in.limit),
                                            !.events = Append(@, "full")]
               /\ as_pc' = "prefetch_fanout"
               /\ UNCHANGED as_exc
    /\ UNCHANGED <<as_in, as_loops, as_pool, as_conns, as_out, AsyncFrame>>

\* faulty variant of SelectWindow: every window asks for the full window size
SelectWindow_AsksFullWindow ==
    /\ as_pc = "window_select"
    /\ IF as_loc.remaining <= 0
       THEN /\ as_loc' = [as_loc EXCEPT !.exit = "window_return"]
            /\ as_pc' = "finally"
            /\ UNCHANGED as_exc
       ELSE \E fails \in BOOLEAN :
               IF fails
               THEN /\ as_exc' = Some(DatabaseError)
                    /\ as_loc' = [as_loc EXCEPT !.exit = "select_raised"]
                    /\ as_pc' = "finally"
               ELSE LET window_limit == CONCURRENT_ID_WINDOW_SIZE
                        window_ids == SelectAfter(as_in.table, as_loc.last_selected_id,
                                                  window_limit)
                        asked == <<as_loc.last_selected_id, window_limit>>
                    IN  /\ UNCHANGED as_exc
                        /\ IF window_ids = <<>>
                           THEN /\ as_loc' = [as_loc EXCEPT !.exit = "window_break",
                                                !.ids = window_ids,
                                                !.requests = Append(@, asked),
                                                !.events = Append(@, "window")]
                                /\ as_pc' = "finally"
                           ELSE /\ as_loc' = [as_loc EXCEPT !.ids = window_ids,
                                                !.windows = @ + 1,
                                                !.requests = Append(@, asked),
                                                !.events = Append(@, "window")]
                                /\ as_pc' = "window_fanout"
    /\ UNCHANGED <<as_in, as_loops, as_pool, as_conns, as_out, AsyncFrame>>

\* `while remaining > 0:` and the identifier selection of one window
SelectWindow ==
    /\ as_pc = "window_select"
    /\ IF as_loc.remaining <= 0
       THEN /\ as_loc' = [as_loc EXCEPT !.exit = "window_return"]
            /\ as_pc' = "finally"
            /\ UNCHANGED as_exc
       ELSE \E fails \in BOOLEAN :
               IF fails
               THEN /\ as_exc' = Some(DatabaseError)
                    /\ as_loc' = [as_loc EXCEPT !.exit = "select_raised"]
                    /\ as_pc' = "finally"
               ELSE LET window_limit == Min2(CONCURRENT_ID_WINDOW_SIZE, as_loc.remaining)
                        window_ids == SelectAfter(as_in.table, as_loc.last_selected_id,
                                                  window_limit)
                        asked == <<as_loc.last_selected_id, window_limit>>
                    IN  /\ UNCHANGED as_exc
                        /\ IF window_ids = <<>>
                           THEN /\ as_loc' = [as_loc EXCEPT !.exit = "window_break",
                                                !.ids = window_ids,
                                                !.requests = Append(@, asked),
                                                !.events = Append(@, "window")]
                                /\ as_pc' = "finally"
                           ELSE /\ as_loc' = [as_loc EXCEPT !.ids = window_ids,
                                                !.windows = @ + 1,
                                                !.requests = Append(@, asked),
                                                !.events = Append(@, "window")]
                                /\ as_pc' = "window_fanout"
    /\ UNCHANGED <<as_in, as_loops, as_pool, as_conns, as_out, AsyncFrame>>

\* process_selected_ids: one task per range under asyncio.gather; a task that
\* raises makes gather raise
FanOut ==
    /\ as_pc \in {"prefetch_fanout", "window_fanout"}
    /\ \E fails \in {f \in BOOLEAN : f => as_loc.ids # <<>>} :
          IF fails
          THEN /\ as_exc' = Some(DatabaseError)
               /\ as_loc' = [as_loc EXCEPT !.exit = "fanout_raised"]
               /\ as_pc' = "finally"
          ELSE LET got == process_selected_ids(as_in.table, as_loc.ids,
                                               effective_concurrency, as_in.batch_size)
               IN  /\ UNCHANGED as_exc
                   /\ IF as_pc = "prefetch_fanout"
                      THEN /\ as_loc' = [as_loc EXCEPT !.rows_read = got.rows,
                                           !.fetched = Append(@, as_loc.ids),
                                           !.events = Append(@, "fanout"),
                                           !.exit = "prefetch_return"]
                           /\ as_pc' = "finally"
                      ELSE /\ as_loc' = [as_loc EXCEPT !.rows_read = @ + got.rows,
                                           !.fetched = Append(@, as_loc.ids),
                                           !.events = Append(@, "fanout"),
                                           !.remaining = @ - Len(as_loc.ids),
                                           !.last_selected_id =
                                               Some(as_loc.ids[Len(as_loc.ids)])]
                           /\ as_pc' = "window_select"
    /\ UNCHANGED <<as_in, as_loops, as_pool, as_conns, as_out, AsyncFrame>>

\* variant: the pool is closed only when no exception is on its way out
ClosePool_OnlyOnReturn ==
    /\ as_pc = "finally"
    /\ as_pool' = IF as_exc = None THEN "closed" ELSE as_pool
    /\ as_pc' = IF as_exc = None THEN "done" ELSE "failing"
    /\ UNCHANGED <<as_in, as_loops, as_conns, as_loc, as_exc, as_out, AsyncFrame>>

\* finally: await pool.close()
ClosePool ==
    /\ as_pc = "finally"
    /\ as_pool' = "closed"
    /\ as_pc' = IF as_exc = None THEN "done" ELSE "failing"
    /\ UNCHANGED <<as_in, as_loops, as_conns, as_loc, as_exc, as_out, AsyncFrame>>

\* the coroutine is over: execute / execute_async builds the StrategyResult
\* or lets the exception go on
Leave ==
    /\ as_pc \in {"done", "failing"}
    /\ IF as_pc = "done"
       THEN as_pc' = "returned" /\ as_out' = Some(as_loc.rows_read)
       ELSE as_pc' = "raised" /\ UNCHANGED as_out
    /\ UNCHANGED <<as_in, as_loops, as_pool, as_conns, as_loc, as_exc, AsyncFrame>>

NextAsync ==
    \/ Enter
    \/ StreamSingle
    \/ ConcurrentEntry
    \/ SelectPrefetch
    \/ SelectWindow
    \/ FanOut
    \/ ClosePool
    \/ Leave

SpecAsync == InitAsync /\ [][NextAsync]_vars

\* the coroutine runs under an event loop and every awaited database call of
\* the window loop returns or raises: a window step that stays possible is taken
SpecAsyncFair == SpecAsync /\ WF_vars(SelectWindow) /\ WF_vars(FanOut)


(***************************************************************************)
(* Properties of SpecAsync                                                 *)
(***************************************************************************)
\* execute() was called while an event loop was running
InsideLoop == as_in.entry = "execute" /\ as_in.loop_running

\* the exception on its way out is a failure of the database
DatabaseFailed == as_exc = Some(DatabaseError)

\* rows the read delivers: the first `limit` rows of the table
RowsToRead == Min2(Max2(as_in.limit, 0), Cardinality(as_in.table))

\* C13: execute() inside a running event loop fails at once with a
\* RuntimeError whose message points to execute_async(), before any pool or
\* connection is opened and without creating a loop; execute() outside a loop
\* and execute_async() inside one perform the read and return its result.
C13_ExecuteInsideLoopFailsFast ==
    /\ InsideLoop =>
          /\ as_pc \in {"call", "raised"}
          /\ as_pool = "none" /\ as_conns = 0 /\ as_loops = 0
          /\ as_pc = "raised" =>
                /\ as_exc # None
                /\ as_exc[1].type = "RuntimeError"
                /\ Contains(as_exc[1].msg, <<"execute_async()">>)
    /\ ~InsideLoop =>
          /\ as_pc = "raised" => DatabaseFailed
          /\ (as_pc \notin {"call", "raised"} /\ ~DatabaseFailed) =>
                as_loops = (IF as_in.entry = "execute" THEN 1 ELSE 0)
          /\ as_pc = "returned" =>
                /\ as_out = Some(RowsToRead)
                /\ as_exc = None
                /\ as_in.limit > 0 => as_conns + (IF as_pool = "none" THEN 0 ELSE 1) = 1

\* execute() inside a running loop has raised
C13_Witness ==
    /\ InsideLoop
    /\ as_pc = "raised"
    /\ as_in.concurrency > 1
    /\ as_in.limit > 0

\* the second half of C13: a read through execute_async inside a loop returned
C13_ReadWitness ==
    /\ as_in.entry = "execute_async"
    /\ as_pc = "returned"
    /\ as_out # None /\ as_out[1] > 0

\* _stream_concurrent is over (returned or raised) after it created its pool
ConcurrentExited ==
    /\ as_pc \in {"done", "failing", "returned", "raised"}
    /\ as_loc.path \in {"prefetch", "windowed"}

\* C14: once the pool of _stream_concurrent exists it is closed on every
\* exit path: return from the prefetch path, return or early break of the
\* windowed path, an exception in an identifier selection, an exception in a
\* fan-out task.
C14_PoolClosedOnEveryExit ==
    /\ as_pool # "none" => as_loc.path \in {"prefetch", "windowed"}
    /\ ConcurrentExited =>
          /\ as_pool = "closed"
          /\ as_loc.exit \in {"prefetch_return", "window_return", "window_break",
                              "select_raised", "fanout_raised"}
          /\ (as_exc # None) <=> (as_loc.exit \in {"select_raised", "fanout_raised"})
    /\ (as_pc \in {"returned", "raised"}) => as_pool # "open"
    /\ (as_pc \in {"prefetch_select", "prefetch_fanout", "window_select",
                   "window_fanout", "finally"}) => as_pool = "open"

\* a fan-out task of the second window raised and the exception left execute
C14_Witness ==
    /\ as_pc = "raised"
    /\ as_loc.exit = "fanout_raised"
    /\ as_loc.path = "windowed"
    /\ as_loc.windows > 1
    /\ as_pool = "closed"


(***************************************************************************)
(* SpecProfiler: profile_block around one piece of work.  Two threads: the *)
(* caller (entry, the wrapped work, the finally block) and the sampler     *)
(* (_sample_resources).  peak_rss and total_child_cpu_time are closure     *)
(* variables written by the sampler and read by the finally block.         *)
(***************************************************************************)
\* iterations of the sampling loop
MaxSamples == 2

ProfilerFrame == <<stratVars, orchVars, mergeVars, mpVars, psVars, rgVars, asVars,
                   ctxVars, lateVars>>

\* ProfileStats(label=label): the dataclass defaults
NewProfileStats ==
    [label |-> "block", start_ts |-> 0, end_ts |-> 0, duration_seconds |-> 0,
     peak_rss_bytes |-> None, peak_traced_bytes |-> None, cpu_percent |-> None]

\* resident set sizes psutil may report
RssReadings == {0, 3}

\* what the sampler may find for one enumerated child: "gone" (memory_info
\* raises NoSuchProcess), "lost_cpu" (gone by the time cpu_times is asked),
\* "idle" (no CPU time since the last sample), "busy" (one unit since then)
ChildStates == {"gone", "lost_cpu", "idle", "busy"}

\* children enumerated in one sample
MaxChildren == 2

ChildLists == UNION {[1..n -> ChildStates] : n \in 0..MaxChildren}

InitProfiler ==
    /\ pf_in \in [psutil : BOOLEAN, track_children : BOOLEAN, raises : BOOLEAN]
    /\ pf_main = "entry"
    /\ pf_sampler = "not_started"
    /\ pf_stop = FALSE
    /\ pf_closure = [peak_rss |-> 0, total_child_cpu_time |-> 0, current_rss |-> 0]
    /\ pf_stats = NewProfileStats
    /\ pf_obs = [read |-> {}, late |-> {}, after_exit |-> 0, samples |-> 0,
                 joined |-> "no", work_time |-> 0, outcome |-> "none",
                 pending |-> [rss |-> 0, cpu |-> 0], seen_max |-> 0, seen_cpu |-> 0,
                 max_at_read |-> 0, skipped_in |-> 0]
    /\ StrategiesIdle
    /\ OrchestratorIdle
    /\ MergeIdle
    /\ WorkersIdle
    /\ PooledIdle
    /\ RangesIdle
    /\ AsyncIdle
    /\ ContextsIdle
    /\ LateIdle

\* profile_block up to `yield stats`: peak_rss initialised, the start CPU
\* times read, the sampler thread started, start_ts taken.  Neither
\* process.memory_info() nor process.cpu_times() is inside a try: when one of
\* them raises, the exception leaves profile_block before the work has begun
ProfileEnter ==
    /\ pf_main = "entry"
    /\ \E read_fails \in {f \in BOOLEAN : f => pf_in.psutil} :
          IF read_fails
          THEN /\ pf_main' = "entry_raised"
               /\ pf_obs' = [pf_obs EXCEPT !.outcome = "profiler_raised"]
               /\ UNCHANGED <<pf_closure, pf_sampler, pf_stats>>
          ELSE /\ \E rss \in RssReadings :
                     LET first == IF pf_in.psutil THEN rss ELSE 0
                     IN  /\ pf_closure' = [pf_closure EXCEPT !.peak_rss = first]
                         /\ pf_obs' = [pf_obs EXCEPT !.seen_max = first]
               /\ pf_sampler' = "started"
               /\ pf_stats' = [pf_stats EXCEPT !.start_ts = 1]
               /\ pf_main' = "body"
    /\ UNCHANGED <<pf_in, pf_stop, ProfilerFrame>>

\* the wrapped work ends, by return or by exception, after some time
WorkEnds ==
    /\ pf_main = "body"
    /\ \E elapsed \in {0, 2} : pf_obs' = [pf_obs EXCEPT !.work_time = elapsed]
    /\ pf_main' = "finally"
    /\ UNCHANGED <<pf_in, pf_sampler, pf_stop, pf_closure, pf_stats, ProfilerFrame>>

\* finally: end_ts and duration_seconds
StampEnd ==
    /\ pf_main = "finally"
    /\ pf_stats' = [pf_stats EXCEPT !.end_ts = pf_stats.start_ts + pf_obs.work_time,
                                    !.duration_seconds = pf_obs.work_time]
    /\ pf_main' = "stop"
    /\ UNCHANGED <<pf_in, pf_sampler, pf_stop, pf_closure, pf_obs, ProfilerFrame>>

\* stop_sampling.set()
StopSampling ==
    /\ pf_main = "stop"
    /\ pf_stop' = TRUE
    /\ pf_main' = "join"
    /\ UNCHANGED <<pf_in, pf_sampler, pf_closure, pf_stats, pf_obs, ProfilerFrame>>

\* the sampler is inside one iteration of its loop (in a psutil call)
MidIteration == pf_sampler \in {"measuring", "children_done"}

\* sampler.join(timeout=1.0) returns because the thread has ended
JoinReturns ==
    /\ pf_main = "join"
    /\ pf_sampler = "finished"
    /\ pf_main' = "record_rss"
    /\ pf_obs' = [pf_obs EXCEPT !.joined = "finished"]
    /\ UNCHANGED <<pf_in, pf_sampler, pf_stop, pf_closure, pf_stats, ProfilerFrame>>

\* sampler.join(timeout=1.0) returns because the second has passed while the
\* sampler is still inside an iteration; the code does not look at is_alive()
JoinTimesOut ==
    /\ pf_main = "join"
    /\ MidIteration
    /\ pf_main' = "record_rss"
    /\ pf_obs' = [pf_obs EXCEPT !.joined = "timeout"]
    /\ UNCHANGED <<pf_in, pf_sampler, pf_stop, pf_closure, pf_stats, ProfilerFrame>>

\* stats.peak_rss_bytes = peak_rss if peak_rss > 0 else None
RecordPeakRss ==
    /\ pf_main = "record_rss"
    /\ pf_stats' = [pf_stats EXCEPT !.peak_rss_bytes =
                       IF pf_closure.peak_rss > 0 THEN Some(pf_closure.peak_rss) ELSE None]
    /\ pf_obs' = [pf_obs EXCEPT !.read = @ \cup {"peak_rss"},
                                !.max_at_read = pf_obs.seen_max]
    /\ pf_main' = "record_cpu"
    /\ UNCHANGED <<pf_in, pf_sampler, pf_stop, pf_closure, ProfilerFrame>>

\* _capture_cpu_percent: the parent used one unit of CPU time
_capture_cpu_percent(total_child_cpu_time, duration_seconds) ==
    IF duration_seconds > 0
    THEN ((1 + total_child_cpu_time) * 100) \div duration_seconds
    ELSE 0

\* if process and start_cpu_times: stats.cpu_percent = _capture_cpu_percent(...)
\* _capture_cpu_percent begins with process.cpu_times(), outside any try: when
\* it raises, the exception leaves the finally block in place of the work's
\* own outcome and the tracemalloc peak is never recorded
RecordCpu ==
    /\ pf_main = "record_cpu"
    /\ \E read_fails \in {f \in BOOLEAN : f => pf_in.psutil} :
          IF read_fails
          THEN /\ pf_main' = "exit_raised"
               /\ pf_obs' = [pf_obs EXCEPT !.read = @ \cup {"total_child_cpu_time"},
                                           !.outcome = "profiler_raised"]
               /\ UNCHANGED pf_stats
          ELSE /\ IF pf_in.psutil
                  THEN /\ pf_stats' = [pf_stats EXCEPT !.cpu_percent =
                                          Some(_capture_cpu_percent(
                                                  pf_closure.total_child_cpu_time,
                                                  pf_stats.duration_seconds))]
                       /\ pf_obs' = [pf_obs EXCEPT
                                        !.read = @ \cup {"total_child_cpu_time"}]
                  ELSE UNCHANGED <<pf_stats, pf_obs>>
               /\ pf_main' = "record_traced"
    /\ UNCHANGED <<pf_in, pf_sampler, pf_stop, pf_closure, ProfilerFrame>>

\* stats.peak_traced_bytes = _capture_tracemalloc_peak(...); the finally block
\* is over: the context manager returns or lets the work's exception go on
RecordTracedAndExit ==
    /\ pf_main = "record_traced"
    /\ pf_stats' = [pf_stats EXCEPT !.peak_traced_bytes = Some(1)]
    /\ pf_main' = "exited"
    /\ pf_obs' = [pf_obs EXCEPT !.outcome = IF pf_in.raises THEN "work_raised"
                                            ELSE "returned"]
    /\ UNCHANGED <<pf_in, pf_sampler, pf_stop, pf_closure, ProfilerFrame>>

\* the orchestrator's next measurement run enters its own profile_block
NextRunEnters ==
    /\ pf_main = "exited"
    /\ pf_main' = "next_run"
    /\ UNCHANGED <<pf_in, pf_sampler, pf_stop, pf_closure, pf_stats, pf_obs,
                   ProfilerFrame>>

\* what a write of the sampler to closure variable v adds to the observations
Written(v) ==
    [pf_obs EXCEPT !.late = IF v \in pf_obs.read THEN @ \cup {v} ELSE @,
                   !.after_exit = IF pf_main = "exited" THEN 1 ELSE @]

\* _sample_resources starts: `if not process: return`
SamplerStarts ==
    /\ pf_sampler = "started"
    /\ pf_sampler' = IF pf_in.psutil THEN "check" ELSE "finished"
    /\ UNCHANGED <<pf_in, pf_main, pf_stop, pf_closure, pf_stats, pf_obs, ProfilerFrame>>

\* while not stop_sampling.is_set(): current_rss = process.memory_info().rss
SamplerChecks ==
    /\ pf_sampler = "check"
    /\ IF pf_stop
       THEN pf_sampler' = "finished" /\ UNCHANGED <<pf_obs, pf_closure>>
       ELSE /\ pf_obs.samples < MaxSamples
            /\ pf_sampler' = "measuring"
            /\ \E rss \in RssReadings :
                  /\ pf_closure' = [pf_closure EXCEPT !.current_rss = rss]
                  /\ pf_obs' = [pf_obs EXCEPT !.samples = @ + 1,
                                              !.pending = [rss |-> rss, cpu |-> 0]]
    /\ UNCHANGED <<pf_in, pf_main, pf_stop, pf_stats, ProfilerFrame>>

\* variant of SampleChildrenFrom: a vanished child ends the loop
RECURSIVE SampleChildrenFrom_StopsAtVanished(_, _, _)
SampleChildrenFrom_StopsAtVanished(children, k, acc) ==
    IF k > Len(children) THEN acc
    ELSE IF children[k] = "gone"
         THEN acc
         ELSE SampleChildrenFrom_StopsAtVanished(children, k + 1,
                  [rss |-> acc.rss + 2,
                   cpu |-> acc.cpu + (IF children[k] = "busy" THEN 1 ELSE 0)])

\* `for child in process.children(recursive=True):` from the k-th child on.
\* acc is what the loop has added to current_rss and total_child_cpu_time;
\* each readable child has a resident set of 2.  NoSuchProcess / AccessDenied
\* from child.memory_info() is caught inside the loop body: that child adds
\* nothing and the loop goes on; _get_cpu_times_total catches its own
RECURSIVE SampleChildrenFrom(_, _, _)
SampleChildrenFrom(children, k, acc) ==
    IF k > Len(children) THEN acc
    ELSE IF children[k] = "gone"
         THEN SampleChildrenFrom(children, k + 1, acc)
         ELSE SampleChildrenFrom(children, k + 1,
                  [rss |-> acc.rss + 2,
                   cpu |-> acc.cpu + (IF children[k] = "busy" THEN 1 ELSE 0)])

\* what one sample of the given children is worth, child by child
ReadableChildren(children) == {k \in DOMAIN children : children[k] # "gone"}
BusyChildren(children) == {k \in DOMAIN children : children[k] = "busy"}

\* the loop over the children of one sample
SampleChildren ==
    /\ pf_sampler = "measuring"
    /\ pf_in.track_children
    /\ \E children \in ChildLists :
          LET added == SampleChildrenFrom(children, 1, [rss |-> 0, cpu |-> 0])
              obs == IF added.cpu > 0 THEN Written("total_child_cpu_time") ELSE pf_obs
          IN  /\ pf_closure' = [pf_closure EXCEPT
                                  !.current_rss = @ + added.rss,
                                  !.total_child_cpu_time = @ + added.cpu]
              /\ pf_obs' = [obs EXCEPT
                              !.pending = [rss |-> @.rss + 2 * Cardinality(
                                                       ReadableChildren(children)),
                                           cpu |-> Cardinality(BusyChildren(children))],
                              !.seen_cpu = @ + Cardinality(BusyChildren(children)),
                              !.skipped_in =
                                  IF @ = 0 /\ ReadableChildren(children) # DOMAIN children
                                  THEN pf_obs.samples ELSE @]
    /\ pf_sampler' = "children_done"
    /\ UNCHANGED <<pf_in, pf_main, pf_stop, pf_stats, ProfilerFrame>>

\* the sampler's state once its iteration reaches the write of peak_rss
ReadyToWritePeak ==
    \/ pf_sampler = "measuring" /\ ~pf_in.track_children
    \/ pf_sampler = "children_done"

\* variant: the sampler also stores the peak into the stats object
WritePeak_IntoStats ==
    /\ ReadyToWritePeak
    /\ pf_closure' = [pf_closure EXCEPT !.peak_rss = Max2(@, pf_closure.current_rss)]
    /\ pf_stats' = [pf_stats EXCEPT !.peak_rss_bytes =
                       Some(Max2(pf_closure.peak_rss, pf_closure.current_rss))]
    /\ pf_obs' = [Written("peak_rss") EXCEPT !.seen_max = Max2(@, pf_obs.pending.rss)]
    /\ pf_sampler' = "waiting"
    /\ UNCHANGED <<pf_in, pf_main, pf_stop, ProfilerFrame>>

\* variant: the sampler keeps the latest sample instead of the largest
WritePeak_KeepsLatest ==
    /\ ReadyToWritePeak
    /\ pf_closure' = [pf_closure EXCEPT !.peak_rss = pf_closure.current_rss]
    /\ pf_obs' = [Written("peak_rss") EXCEPT !.seen_max = Max2(@, pf_obs.pending.rss)]
    /\ pf_sampler' = "waiting"
    /\ UNCHANGED <<pf_in, pf_main, pf_stop, pf_stats, ProfilerFrame>>

\* peak_rss = max(peak_rss, current_rss)
WritePeak ==
    /\ ReadyToWritePeak
    /\ pf_closure' = [pf_closure EXCEPT !.peak_rss = Max2(@, pf_closure.current_rss)]
    /\ pf_obs' = [Written("peak_rss") EXCEPT !.seen_max = Max2(@, pf_obs.pending.rss)]
    /\ pf_sampler' = "waiting"
    /\ UNCHANGED <<pf_in, pf_main, pf_stop, pf_stats, ProfilerFrame>>

\* except Exception: pass -- a psutil call of the iteration raised
SampleFails ==
    /\ MidIteration
    /\ pf_sampler' = "waiting"
    /\ UNCHANGED <<pf_in, pf_main, pf_stop, pf_closure, pf_stats, pf_obs, ProfilerFrame>>

\* stop_sampling.wait(timeout=...) returns: the event is set or the interval passed
SamplerWaits ==
    /\ pf_sampler = "waiting"
    /\ pf_sampler' = "check"
    /\ UNCHANGED <<pf_in, pf_main, pf_stop, pf_closure, pf_stats, pf_obs, ProfilerFrame>>

NextProfiler ==
    \/ ProfileEnter
    \/ WorkEnds
    \/ StampEnd
    \/ StopSampling
    \/ JoinReturns
    \/ JoinTimesOut
    \/ RecordPeakRss
    \/ RecordCpu
    \/ RecordTracedAndExit
    \/ NextRunEnters
    \/ SamplerStarts
    \/ SamplerChecks
    \/ SampleChildren
    \/ WritePeak
    \/ SampleFails
    \/ SamplerWaits

SpecProfiler == InitProfiler /\ [][NextProfiler]_vars

(***************************************************************************)
(* Properties of SpecProfiler                                              *)
(***************************************************************************)
\* C19: the sampler writes neither peak_rss nor total_child_cpu_time after
\* the finally block has read it, under every interleaving, also when an
\* iteration of the sampler is still in progress when the scope exits.
C19_NoWriteAfterFinalRead == pf_obs.late = {}

\* when join returned because the sampler had ended, no write follows a read
NoLateWriteAfterFullJoin == pf_obs.joined = "finished" => pf_obs.late = {}

\* C20: the ProfileStats record changes only on entry and in the finally
\* block: not while the wrapped work runs, and never again once
\* profile_block has exited (by return or by the work's exception), whatever
\* the sampler thread does afterwards.
C20_StatsFrozenAfterExit ==
    [][(pf_main \in {"body", "exited"}) => (pf_stats' = pf_stats)]_vars

\* the work raised, profile_block has exited and the sampler wrote afterwards
C20_Witness ==
    /\ pf_main = "exited"
    /\ pf_in.raises
    /\ pf_obs.after_exit > 0
    /\ pf_stats.peak_rss_bytes # None

\* the steps of the sampler thread
SamplerStep ==
    \/ SamplerStarts
    \/ SamplerChecks
    \/ SampleChildren
    \/ WritePeak
    \/ SampleFails
    \/ SamplerWaits

\* the sampler thread is scheduled and each psutil call it makes returns or raises
SpecProfilerFair == SpecProfiler /\ WF_vars(SamplerStep)

\* once the stop event is set the sampler thread ends
SamplerEventuallyEnds == pf_stop ~> (pf_sampler = "finished")

\* C21: no failure of a profiler measurement (the RSS and CPU-time reads at
\* scope entry, a background sample, the CPU-time read at scope exit) leaves
\* profile_block or replaces the outcome of the wrapped work.
C21_ProfilingNeverFails == pf_obs.outcome # "profiler_raised"

\* a failure inside a sample never reaches the caller: the with statement ends
\* with the work's own outcome unless a read of the caller's thread failed
OnlyCallerReadsPropagate ==
    /\ pf_main = "exited" =>
          pf_obs.outcome = (IF pf_in.raises THEN "work_raised" ELSE "returned")
    /\ pf_obs.outcome = "profiler_raised" => pf_main \in {"entry_raised", "exit_raised"}

\* C22: with child tracking, a child that has vanished when it is queried is
\* skipped: the sample still counts the parent and every readable child
\* (also those enumerated after the vanished one), the CPU time of the
\* readable children is accumulated, and the sampler thread ends only once
\* the stop event is set.
C22_VanishedChildIsSkipped ==
    /\ MidIteration => pf_closure.current_rss = pf_obs.pending.rss
    /\ pf_closure.total_child_cpu_time = pf_obs.seen_cpu
    /\ pf_sampler = "finished" => (pf_stop \/ ~pf_in.psutil)
    /\ pf_obs.skipped_in > 0 => pf_sampler \in {"children_done", "waiting", "check",
                                               "measuring", "finished"}

\* the first sample skipped a vanished child, the sampler went on to a second
\* sample, and that one counted a child as well
C22_Witness ==
    /\ pf_obs.skipped_in = 1
    /\ pf_obs.samples = 2
    /\ pf_sampler = "children_done"
    /\ ~pf_stop
    /\ pf_closure.current_rss = 5
    /\ pf_closure.total_child_cpu_time = 2

\* C23: peak_rss never decreases, it is the maximum of the RSS read on entry
\* and of every completed sample (parent plus readable children), and the
\* finalizer stores the maximum of what was complete when it read, or None
\* when that maximum is not positive.
C23_PeakRssIsRunningMaximum ==
    /\ [](/\ pf_main \notin {"entry", "entry_raised"} =>
                pf_closure.peak_rss = pf_obs.seen_max
          /\ "peak_rss" \in pf_obs.read =>
                pf_stats.peak_rss_bytes = (IF pf_obs.max_at_read > 0
                                           THEN Some(pf_obs.max_at_read) ELSE None))
    /\ [][pf_closure'.peak_rss >= pf_closure.peak_rss]_vars

\* a sample with two children set the peak, a later and smaller sample did not
\* lower it, and the finalizer stored it
C23_Witness ==
    /\ pf_main = "exited"
    /\ pf_obs.joined = "finished"
    /\ pf_obs.samples = 2
    /\ pf_closure.current_rss = 2
    /\ pf_stats.peak_rss_bytes = Some(7)

\* nothing positive was ever read: the peak is None although psutil is there
C23_NoneWitness ==
    /\ pf_main = "exited"
    /\ pf_in.psutil
    /\ pf_obs.samples > 0
    /\ pf_stats.peak_rss_bytes = None

\* C24: the sampler of a scope has ended when the next measurement run
\* enters its own scope, so that samplers of successive runs never overlap.
C24_SamplersNeverOverlap == pf_main = "next_run" => pf_sampler = "finished"


\* the sizes of the ranges returned, in order
RangeSizes == [k \in DOMAIN rg_ranges[1] |-> rg_ranges[1][k][2] - rg_ranges[1][k][1]]

\* C28: for limit >= 1 and concurrency >= 1 there are exactly
\* min(concurrency, limit) ranges, any two sizes differ by at most 1, and the
\* ranges one longer are exactly the first (limit mod effective concurrency).
C28_RangesAreNearEqual ==
    (rg_ranges # None /\ rg_limit >= 1) =>
       LET n == Min2(rg_concurrency, rg_limit)
           extra == rg_limit % n
           smallest == SeqMin(RangeSizes)
       IN  /\ Len(rg_ranges[1]) = n
           /\ \A j, k \in DOMAIN RangeSizes :
                 RangeSizes[j] - RangeSizes[k] \in {-1, 0, 1}
           /\ smallest = rg_limit \div n
           /\ \A k \in DOMAIN RangeSizes :
                 RangeSizes[k] = smallest + (IF k <= extra THEN 1 ELSE 0)

\* a split with a remainder of two over four ranges
C28_Witness ==
    /\ rg_ranges # None
    /\ rg_limit = 10
    /\ rg_concurrency = 4
    /\ RangeSizes = <<3, 3, 2, 2>>


\* _stream_concurrent has been entered
ConcurrentEntered ==
    /\ as_pc # "call"
    /\ ~InsideLoop
    /\ as_in.entry = "_stream_concurrent" \/ as_in.concurrency > 1

\* C25: in the concurrent path a limit strictly below the threshold selects
\* all identifiers in one round trip; a limit that meets or exceeds the
\* threshold uses the windowed keyset path and never issues the full
\* prefetch query.
C25_ThresholdSelectsMode ==
    as_loc.path \in {"prefetch", "windowed"} =>
       /\ as_in.limit < CONCURRENT_ID_WINDOW_THRESHOLD <=> as_loc.path = "prefetch"
       /\ as_in.limit >= CONCURRENT_ID_WINDOW_THRESHOLD =>
             \A k \in DOMAIN as_loc.events : as_loc.events[k] # "full"

\* what the code does: the prefetch is used up to and including the threshold
PrefetchUpToThreshold ==
    as_loc.path \in {"prefetch", "windowed"} =>
       /\ as_in.limit <= CONCURRENT_ID_WINDOW_THRESHOLD <=> as_loc.path = "prefetch"
       /\ as_loc.path = "windowed" =>
             \A k \in DOMAIN as_loc.events : as_loc.events[k] # "full"
       /\ as_loc.path = "prefetch" =>
             \A k \in DOMAIN as_loc.events : as_loc.events[k] # "window"

\* the windowed loop is over
WindowsOver == as_loc.path = "windowed" /\ as_pc \in {"finally", "done", "failing",
                                                       "returned", "raised"}

\* identifiers handed to the fan-outs so far, in order
FetchedIds == Flatten(as_loc.fetched)

\* C26: in the windowed path window k asks for min(window size, remaining)
\* identifiers greater than the last identifier of window k - 1 (no lower
\* bound for the first); a window's fan-out is over before the next window is
\* selected; at most one window of identifiers is held; the windows are
\* disjoint and ascending; the loop ends; the count returned is
\* min(limit, available rows); limit 8 with window 3 asks (None,3), (3,3), (6,2).
C26_WindowedKeysetPaging ==
    /\ [](as_loc.path = "windowed" =>
            /\ \A k \in DOMAIN as_loc.requests :
                  LET before == SumSeq([j \in 1..(k - 1) |-> Len(as_loc.fetched[j])])
                  IN  /\ as_loc.requests[k][2]
                            = Min2(CONCURRENT_ID_WINDOW_SIZE, as_in.limit - before)
                      /\ as_loc.requests[k][1]
                            = (IF k = 1 THEN None
                               ELSE Some(as_loc.fetched[k - 1][Len(as_loc.fetched[k - 1])]))
            /\ \A k \in DOMAIN as_loc.events :
                  as_loc.events[k] = (IF k % 2 = 1 THEN "window" ELSE "fanout")
            /\ Len(as_loc.ids) <= CONCURRENT_ID_WINDOW_SIZE
            /\ FetchedIds = Prefix(SelectOrdered(as_in.table, as_in.limit), Len(FetchedIds))
            /\ \A k \in DOMAIN as_loc.fetched : as_loc.fetched[k] # <<>>
            /\ as_pc = "returned" => as_out = Some(Min2(as_in.limit, Cardinality(as_in.table)))
            /\ (as_pc = "returned" /\ as_in.limit = LARGE_LIMIT /\ as_in.table = 1..LARGE_LIMIT)
                  => as_loc.requests = << <<None, 3>>, <<Some(3), 3>>, <<Some(6), 2>> >>)
    /\ (as_pc = "window_select") ~> WindowsOver

\* gapped identifiers, limit 8, seven rows: three windows and a break on the
\* empty fourth, seven rows returned
C26_Witness ==
    /\ as_pc = "returned"
    /\ as_loc.exit = "window_break"
    /\ as_in.limit = LARGE_LIMIT
    /\ Len(as_loc.requests) = 4
    /\ as_loc.requests[4] = <<Some(14), 1>>
    /\ as_out = Some(7)

\* C27: _stream_concurrent entered with an effective concurrency of at most 1
\* (concurrency <= 1, or limit 1) reads through the single cursor and creates
\* no pool; for limit <= 0 it returns 0 and opens neither connection nor pool.
C27_NoPoolForOneCursor ==
    ConcurrentEntered =>
       /\ (as_in.limit > 0 /\ effective_concurrency <= 1) =>
             /\ as_pool = "none"
             /\ as_loc.path \in {"none", "single"}
             /\ as_pc \in {"concurrent", "stream", "done", "failing", "returned", "raised"}
             /\ as_pc \in {"done", "returned"} =>
                   /\ as_loc.path = "single"
                   /\ as_conns = 1
                   /\ as_loc.rows_read = RowsToRead
       /\ as_in.limit <= 0 =>
             /\ as_pool = "none"
             /\ as_conns = 0
             /\ as_exc = None
             /\ as_pc \in {"concurrent", "done", "returned"}
             /\ as_pc = "returned" => as_out = Some(0)
       /\ (as_in.limit > 0 /\ effective_concurrency > 1 /\ as_pc = "returned") =>
             as_pool = "closed" /\ as_conns = 0

\* _stream_concurrent awaited with concurrency 1 and a limit above the
\* threshold has returned through the single cursor
C27_Witness ==
    /\ as_in.entry = "_stream_concurrent"
    /\ as_in.concurrency = 1
    /\ as_in.limit = LARGE_LIMIT
    /\ as_pc = "returned"
    /\ as_loc.path = "single"
    /\ as_out = Some(LARGE_LIMIT)


(***************************************************************************)
(* SpecContexts: one MultiprocessingStrategy instance, constructed and     *)
(* then executed repeatedly, next to the process-global start method of   *)
(* the multiprocessing module.                                             *)
(***************************************************************************)
MaxExecutes == 3

ContextsFrame == <<stratVars, orchVars, mergeVars, mpVars, psVars, rgVars, asVars,
                   pfVars, lateVars>>

\* mc_in.start_method is the global start method the process had before the
\* strategy was constructed: unset, or set by other code
InitContexts ==
    /\ mc_in \in [table : {{}, 1..4, {2, 4, 6}},
                  limit : {0, 2, 4},
                  processes : {None, Some(0), Some(2)},
                  chunk_size : {1, 2},
                  cpu_count : {1, 3},
                  start_method : {None, Some("fork"), Some("spawn")}]
    /\ mc_global = mc_in.start_method
    /\ mc_self = None
    /\ mc_contexts = <<>>
    /\ mc_calls = <<>>
    /\ StrategiesIdle
    /\ OrchestratorIdle
    /\ MergeIdle
    /\ WorkersIdle
    /\ PooledIdle
    /\ RangesIdle
    /\ AsyncIdle
    /\ ProfilerIdle
    /\ LateIdle

\* __init__: `self.processes = processes or max(mp.cpu_count() - 1, 1)`
MultiprocessingStrategy_init(processes, chunk_size, cpu_count) ==
    [processes |-> IF processes # None /\ processes[1] # 0 THEN processes[1]
                   ELSE Max2(cpu_count - 1, 1),
     chunk_size |-> chunk_size]

\* faulty variant of Construct: the constructor forces the global start method
Construct_SetsStartMethod ==
    /\ mc_self = None
    /\ mc_self' = Some(MultiprocessingStrategy_init(mc_in.processes, mc_in.chunk_size,
                                                    mc_in.cpu_count))
    /\ mc_global' = Some("spawn")
    /\ UNCHANGED <<mc_in, mc_contexts, mc_calls, ContextsFrame>>

Construct ==
    /\ mc_self = None
    /\ mc_self' = Some(MultiprocessingStrategy_init(mc_in.processes, mc_in.chunk_size,
                                                    mc_in.cpu_count))
    /\ UNCHANGED <<mc_in, mc_global, mc_contexts, mc_calls, ContextsFrame>>

\* mp.get_context(method): a context object; the global default is not touched
mp_get_context(method) == [method |-> method, pools |-> <<>>]

\* ctx.Pool(processes=...)
Context_Pool(ctx, processes) == [ctx EXCEPT !.pools = Append(@, processes)]

\* one whole execute(limit) call on the instance; failing is the set of work
\* items whose worker raises
Execute ==
    /\ mc_self # None
    /\ Len(mc_calls) < MaxExecutes
    /\ LET self == mc_self[1]
           ids == SelectOrdered(mc_in.table, mc_in.limit)
       IN  \E failing \in {f \in {{}, {1}} : f # {} => ids # <<>>} :
              LET out == MultiprocessingStrategy_execute(mc_in.table, mc_in.limit,
                                                         self.processes, self.chunk_size,
                                                         failing, FALSE)
              IN  /\ mc_contexts' =
                        (IF ids = <<>> THEN mc_contexts
                         ELSE Append(mc_contexts,
                                     Context_Pool(mp_get_context("spawn"), self.processes)))
                  /\ mc_calls' = Append(mc_calls,
                                        [ids |-> Len(ids), failing |-> failing,
                                         rows |-> out.rows, error |-> out.error])
    /\ UNCHANGED <<mc_in, mc_global, mc_self, ContextsFrame>>

NextContexts ==
    \/ Construct
    \/ Execute

SpecContexts == InitContexts /\ [][NextContexts]_vars

\* the contexts are all 'spawn' contexts with one pool of the instance's size
SpawnContextsWithOnePool ==
    \A k \in DOMAIN mc_contexts :
       /\ mc_contexts[k].method = "spawn"
       /\ mc_self # None
       /\ mc_contexts[k].pools = <<mc_self[1].processes>>

\* every call whose workers all succeeded returned the same count and no error
RepeatableCalls ==
    \A k \in DOMAIN mc_calls :
       mc_calls[k].failing = {} =>
          /\ mc_calls[k].rows = Min2(mc_in.limit, Cardinality(mc_in.table))
          /\ mc_calls[k].error = None

UnknownNameRaised == raised # None /\ raised[1].type = "ValueError"
\* the names the loop has finished before the one at idx
EarlierNames == {names[j] : j \in 1..(idx - 1)}

\* C34: a name outside the registry ends run_strategies with ValueError under
\* either failure policy: no call returns when a requested name is unknown and
\* no result stands for an unknown name; when the ValueError leaves, every
\* earlier name has been executed, every instance created has been closed,
\* and nothing is returned or persisted.
C34_UnknownNameAborts ==
    /\ pc = "returned" => \A j \in DOMAIN names : names[j] \in Registry
    /\ Started => \A k \in DOMAIN results : results[k].strategy \in Registry
    /\ UnknownNameRaised =>
          /\ pc = "raised"
          /\ Name \notin Registry /\ raised[1].msg = Name
          /\ \A n \in EarlierNames :
                \E i \in RunInstances : created[i].name = n /\ created[i].executes = 1
          /\ \A i \in Instances : created[i].executes = 1 /\ created[i].cleanups = 1
          /\ returned = None
          /\ log.persisted = 0 /\ log.payload = None

\* a tolerant call with persistence stopped by an unknown name after a valid one
C34_Witness ==
    /\ UnknownNameRaised /\ Tolerant /\ config.persist
    /\ idx = 2 /\ created # <<>>



\* C35: the payload is persisted at most once, exactly when a call with the
\* persist flag returns, hence after every requested strategy finished all its
\* runs; it lists all requested names and all their results (the list that is
\* returned); a call left by an exception has persisted nothing.
C35_PersistsOnceAfterAllStrategies ==
    /\ log.persisted <= 1
    /\ log.persisted = 1 <=> (pc = "returned" /\ config.persist)
    /\ log.persisted = 1 <=> log.payload # None
    /\ log.payload # None =>
          /\ log.payload[1].strategies = _resolve_strategy_names(config.strategy_names)
          /\ log.payload[1].results = results /\ returned = Some(results)
          /\ \A j \in DOMAIN names :
                \E k \in DOMAIN results : results[k].strategy = names[j]
          /\ Len(RecordedRuns) = Len(names) * config.runs
    /\ pc = "raised" => log.persisted = 0 /\ log.payload = None

\* a persisted payload of two strategies with two runs each
C35_Witness ==
    /\ log.persisted = 1 /\ Len(names) = 2 /\ config.runs = 2
    /\ Len(log.payload[1].results) = 2

\* a strict call with persistence aborted after its first strategy completed
C35_AbortWitness ==
    /\ pc = "raised" /\ config.persist /\ RaisedByStrategy
    /\ idx = 2 /\ results # <<>> /\ log.persisted = 0



Unclosed == {i \in Instances : created[i].cleanups = 0}
OpenPools == {p \in DOMAIN pools : ~pools[p].closed}

\* C36: at most one instance created by run_strategies is un-closed, and it is
\* the newest one: when an instance is created, the cleanup of every earlier
\* instance (warmup or measurement, same or earlier strategy) has returned;
\* so at most one strategy-owned pool is open, and it belongs to that instance.
C36_OneLiveInstance ==
    /\ Cardinality(Unclosed) <= 1
    /\ Unclosed \subseteq {Cur}
    /\ Unclosed # {} => pc \in {"warmup_execute", "warmup_cleanup",
                                "run_execute", "run_cleanup"}
    /\ \A i \in Instances : created[i].cleanups <= 1
    /\ Cardinality(OpenPools) <= 1
    /\ \A p \in OpenPools : pools[p].owner \in Unclosed

\* the third instance of a pooled_sync call holds the one open pool; two
\* pools before it are closed
C36_Witness ==
    /\ Cur = 3 /\ Unclosed = {3} /\ Len(pools) = 3 /\ OpenPools = {3}
    /\ created[1].phase = "warmup"



\* every execute of one call (warmup and measurement) was handed one limit
OneLimitPerCall == Cardinality(log.limits) <= 1

\* C37: every execute call of one run_strategies call receives the same
\* limit, and that limit is config.limit whenever config.limit is provided,
\* a provided limit of 0 included.
C37_ExecutesGetTheRequestedLimit ==
    /\ OneLimitPerCall
    /\ config.limit # None => log.limits \subseteq {config.limit[1]}

\* limit = 0 was requested and an execute call received the default row count
C37_ZeroLimitReadsDefault ==
    /\ config.limit = Some(0)
    /\ log.limits = {benchmark_rows}



(***************************************************************************)
(* SpecAggregate: _aggregate_runs over the per-run records of one strategy *)
(***************************************************************************)
AggregateFrame == <<earlyVars, rtVars, pmVars, foVars, ccVars>>

\* the per-run records as _merge_result leaves them: cpu_percent and
\* peak_rss_bytes are None when the profiler had no (or a zero) reading
RunRecords ==
    [duration_seconds : {1, 2},
     throughput_rows_per_sec : {5},
     rows : {4},
     cpu_percent : {None, Some(50), Some(120)},
     peak_rss_bytes : {None, Some(3), Some(7)}]

RunLists ==
    UNION {[1..n -> RunRecords] : n \in 2..(MaxRuns + 1)}

InitAggregate ==
    /\ ag_runs \in RunLists
    /\ ag_out = None
    /\ EarlyIdle
    /\ RetryIdle
    /\ PoolManagerIdle
    /\ FanOutIdle
    /\ ChildCpuIdle

\* aggregated = _aggregate_runs(run_results)
Aggregate ==
    /\ ag_out = None
    /\ ag_out' = Some(_aggregate_runs(ag_runs))
    /\ UNCHANGED <<ag_runs, AggregateFrame>>

NextAggregate == Aggregate

SpecAggregate == InitAggregate /\ [][NextAggregate]_vars

\* the runs that reported a value for the metric
RunsWith(metric) == {k \in DOMAIN ag_runs : ag_runs[k][metric] # None}

\* C31: the aggregate of several runs carries cpu_percent statistics only if
\* cpu_percent is present in all runs, and likewise peak_rss_bytes: one run
\* with a null value leaves the aggregate without a block for that metric.
C31_StatsOnlyWhenInAllRuns ==
    ag_out # None =>
       \A metric \in {"cpu_percent", "peak_rss_bytes"} :
          HasKey(ag_out[1], metric) => RunsWith(metric) = DOMAIN ag_runs

\* what _aggregate_runs does: the block is present when some run has a value,
\* and is computed over the runs that have one
StatsWhenInSomeRun ==
    ag_out # None =>
       \A metric \in {"cpu_percent", "peak_rss_bytes"} :
          /\ HasKey(ag_out[1], metric) <=> RunsWith(metric) # {}
          /\ HasKey(ag_out[1], metric) =>
                /\ \E k \in RunsWith(metric) : ag_out[1][metric].min = ag_runs[k][metric][1]
                /\ \A k \in RunsWith(metric) : ag_out[1][metric].min <= ag_runs[k][metric][1]

\* two runs, the first without a CPU reading: the aggregate has CPU statistics
C31_PartialMetricAggregated ==
    /\ ag_out # None /\ Len(ag_runs) = 2
    /\ ag_runs[1].cpu_percent = None /\ ag_runs[2].cpu_percent = Some(50)
    /\ HasKey(ag_out[1], "cpu_percent")



(***************************************************************************)
(* SpecRetry: one call of get_sync_connection, decorated with              *)
(* @retry(stop=stop_after_attempt(3), wait=wait_exponential(1, 1, 10),     *)
(*        retry=retry_if_exception_type((OperationalError,                 *)
(*                                       InterfaceError)), reraise=True)   *)
(***************************************************************************)
RetryFrame == <<earlyVars, agVars, pmVars, foVars, ccVars>>

\* stop_after_attempt(3)
MaxAttempts == 3

\* the exception classes psycopg.connect(_dsn()) can raise, with their base
\* classes: ConnectionTimeout derives from OperationalError, which derives
\* from DatabaseError; ValidationError stands for a failure of get_settings
\* inside _dsn
ExcBases ==
    [DatabaseError |-> {"DatabaseError"},
     OperationalError |-> {"OperationalError", "DatabaseError"},
     ConnectionTimeout |-> {"ConnectionTimeout", "OperationalError", "DatabaseError"},
     InterfaceError |-> {"InterfaceError"},
     ProgrammingError |-> {"ProgrammingError", "DatabaseError"},
     ValidationError |-> {"ValidationError"}]
ConnectErrors == DOMAIN ExcBases

\* faulty variant of the retry predicate: every exception is retried
retry_if_exception_type_Any(exc_type) == TRUE

\* retry_if_exception_type((psycopg.OperationalError, psycopg.InterfaceError)):
\* isinstance of the raised exception
retry_if_exception_type(exc_type) ==
    ExcBases[exc_type] \cap {"OperationalError", "InterfaceError"} # {}

\* faulty variant of the stop condition: one attempt more
stop_after_attempt_Late(attempt_number) == attempt_number >= MaxAttempts + 1

stop_after_attempt(attempt_number) == attempt_number >= MaxAttempts

RECURSIVE Pow2(_)
Pow2(n) == IF n = 0 THEN 1 ELSE 2 * Pow2(n - 1)

\* wait_exponential(multiplier=1, min=1, max=10) after attempt attempt_number
wait_exponential(attempt_number) ==
    LET exp == 1 * Pow2(attempt_number - 1)
        capped == IF exp < 10 THEN exp ELSE 10
    IN  IF capped > 1 THEN capped ELSE 1

InitRetry ==
    /\ rt_pc = "call"
    /\ rt_attempt = 0
    /\ rt_trace = <<>>
    /\ rt_waits = <<>>
    /\ rt_out = None
    /\ EarlyIdle
    /\ AggregateIdle
    /\ PoolManagerIdle
    /\ FanOutIdle
    /\ ChildCpuIdle

\* get_sync_connection(): tenacity starts the first attempt
RetryCall ==
    /\ rt_pc = "call"
    /\ rt_attempt' = 1
    /\ rt_pc' = "attempt"
    /\ UNCHANGED <<rt_trace, rt_waits, rt_out, RetryFrame>>

\* one attempt: psycopg.connect(_dsn()) returns a connection or raises; then
\* tenacity's decision: not retryable -> raise; stop -> reraise the attempt's
\* exception; otherwise sleep
RetryAttempt ==
    /\ rt_pc = "attempt"
    /\ \/ /\ rt_trace' = Append(rt_trace, [ok |-> TRUE, attempt |-> rt_attempt])
          /\ rt_out' = Some([conn |-> rt_attempt])
          /\ rt_pc' = "returned"
          /\ UNCHANGED rt_waits
       \/ \E t \in ConnectErrors :
            LET exc == [type |-> t, attempt |-> rt_attempt]
            IN  /\ rt_trace' = Append(rt_trace, [ok |-> FALSE, attempt |-> rt_attempt,
                                                 type |-> t])
                /\ IF ~retry_if_exception_type(t) \/ stop_after_attempt(rt_attempt)
                   THEN /\ rt_out' = Some([exc |-> exc])
                        /\ rt_pc' = "raised"
                        /\ UNCHANGED rt_waits
                   ELSE /\ rt_waits' = Append(rt_waits, wait_exponential(rt_attempt))
                        /\ rt_pc' = "sleep"
                        /\ UNCHANGED rt_out
    /\ UNCHANGED <<rt_attempt, RetryFrame>>

\* the sleep is over: next attempt
RetrySleep ==
    /\ rt_pc = "sleep"
    /\ rt_attempt' = rt_attempt + 1
    /\ rt_pc' = "attempt"
    /\ UNCHANGED <<rt_trace, rt_waits, rt_out, RetryFrame>>

NextRetry ==
    \/ RetryCall
    \/ RetryAttempt
    \/ RetrySleep

SpecRetry == InitRetry /\ [][NextRetry]_vars

\* every connect attempt and every sleep ends
SpecRetryFair == SpecRetry /\ WF_vars(NextRetry)

RetryEnded == rt_pc \in {"returned", "raised"}
\* OperationalError, its subclasses, and InterfaceError
TransientTypes == {"OperationalError", "ConnectionTimeout", "InterfaceError"}
Transient(k) == ~rt_trace[k].ok /\ rt_trace[k].type \in TransientTypes

\* at most 3 attempts; every attempt but the last failed with a transient
\* error; a successful attempt returns its connection and is the last; any
\* other exception is raised by the attempt it occurred in; after three
\* transient failures the third attempt's own exception is raised; the sleeps
\* between attempts are bounded
BoundedRetry ==
    /\ Len(rt_trace) <= MaxAttempts /\ rt_attempt <= MaxAttempts
    /\ \A k \in DOMAIN rt_trace :
          /\ rt_trace[k].attempt = k
          /\ k < Len(rt_trace) => Transient(k)
          /\ rt_trace[k].ok => rt_pc = "returned" /\ rt_out = Some([conn |-> k])
          /\ ~rt_trace[k].ok /\ ~Transient(k) =>
                rt_pc = "raised"
                /\ rt_out = Some([exc |-> [type |-> rt_trace[k].type, attempt |-> k]])
          /\ Transient(k) /\ k = Len(rt_trace) /\ k < MaxAttempts =>
                rt_pc \in {"sleep", "attempt"} /\ Len(rt_waits) \in {k - 1, k}
          /\ Transient(k) /\ k = MaxAttempts =>
                rt_pc = "raised"
                /\ rt_out = Some([exc |-> [type |-> rt_trace[k].type, attempt |-> k]])
    /\ RetryEnded <=> rt_out # None
    /\ Len(rt_waits) <= MaxAttempts - 1
    /\ \A k \in DOMAIN rt_waits : rt_waits[k] >= 1 /\ rt_waits[k] <= 10

\* C32: get_sync_connection makes at most 3 attempts, retrying only after
\* OperationalError / InterfaceError; the first success returns a connection,
\* any other exception is raised at once, the third transient failure is
\* re-raised as it is; so the call always ends.
C32_BoundedRetryTerminates == []BoundedRetry /\ <>RetryEnded

\* three transient failures in a row, the third one re-raised
C32_Witness ==
    /\ rt_pc = "raised" /\ Len(rt_trace) = MaxAttempts
    /\ rt_trace[1].type = "InterfaceError" /\ rt_trace[2].type = "ConnectionTimeout"
    /\ rt_out[1].exc = [type |-> "OperationalError", attempt |-> MaxAttempts]
    /\ rt_waits = <<1, 2>>

\* success at the second attempt after one transient failure
C32_RecoveredWitness ==
    /\ rt_pc = "returned" /\ Len(rt_trace) = 2 /\ rt_out = Some([conn |-> 2])



(***************************************************************************)
(* SpecPoolManager: several threads, each constructing PoolManager() and   *)
(* then calling get_sync_pool() or using `with sync_connection()`; no      *)
(* close_all in between                                                    *)
(***************************************************************************)
MaxThreads == 2

PoolManagerFrame == <<earlyVars, agVars, rtVars, foVars, ccVars>>

Threads == 1..MaxThreads

InitPoolManager ==
    /\ pm_lock = 0
    /\ pm_instance = 0
    /\ pm_sync_pool = 0
    /\ pm_made = [managers |-> 0, pools |-> 0]
    /\ pm_threads \in [Threads -> [pc : {"new"},
                                   op : {"get_sync_pool", "sync_connection"},
                                   manager : {0}, pool : {0}]]
    /\ EarlyIdle
    /\ AggregateIdle
    /\ RetryIdle
    /\ FanOutIdle
    /\ ChildCpuIdle

\* faulty variant of the lock: it excludes nobody
CanAcquire_Always(lock) == TRUE

\* _lock = threading.Lock(): acquired only while free
CanAcquire(lock) == lock = 0

At(t, where) == pm_threads[t].pc = where
Goto(t, where) == [pm_threads EXCEPT ![t].pc = where]

\* __new__: `with cls._lock:`
NewAcquire(t) ==
    /\ At(t, "new") /\ CanAcquire(pm_lock)
    /\ pm_lock' = t
    /\ pm_threads' = Goto(t, "new_check")
    /\ UNCHANGED <<pm_instance, pm_sync_pool, pm_made, PoolManagerFrame>>

\* __new__: `if cls._instance is None:`
NewCheck(t) ==
    /\ At(t, "new_check")
    /\ pm_threads' = Goto(t, IF pm_instance = 0 THEN "new_create" ELSE "new_return")
    /\ UNCHANGED <<pm_lock, pm_instance, pm_sync_pool, pm_made, PoolManagerFrame>>

\* __new__: cls._instance = super().__new__(cls), with _sync_pool = None
NewCreate(t) ==
    /\ At(t, "new_create")
    /\ pm_made' = [pm_made EXCEPT !.managers = @ + 1]
    /\ pm_instance' = pm_made.managers + 1
    /\ pm_sync_pool' = 0
    /\ pm_threads' = Goto(t, "new_return")
    /\ UNCHANGED <<pm_lock, PoolManagerFrame>>

\* __new__: `return cls._instance`, leaving the with block
NewReturn(t) ==
    /\ At(t, "new_return")
    /\ pm_lock' = 0
    /\ pm_threads' = [pm_threads EXCEPT ![t].pc = "pool", ![t].manager = pm_instance]
    /\ UNCHANGED <<pm_instance, pm_sync_pool, pm_made, PoolManagerFrame>>

\* get_sync_pool (called directly or by sync_connection): `with self._lock:`
PoolAcquire(t) ==
    /\ At(t, "pool") /\ CanAcquire(pm_lock)
    /\ pm_lock' = t
    /\ pm_threads' = Goto(t, "pool_check")
    /\ UNCHANGED <<pm_instance, pm_sync_pool, pm_made, PoolManagerFrame>>

\* get_sync_pool: `if self._sync_pool is None:`
PoolCheck(t) ==
    /\ At(t, "pool_check")
    /\ pm_threads' = Goto(t, IF pm_sync_pool = 0 THEN "pool_create" ELSE "pool_return")
    /\ UNCHANGED <<pm_lock, pm_instance, pm_sync_pool, pm_made, PoolManagerFrame>>

\* get_sync_pool: self._sync_pool = ConnectionPool(...); get_settings or the
\* constructor may raise, which leaves the with block without a pool
PoolCreate(t) ==
    /\ At(t, "pool_create")
    /\ \/ /\ pm_made' = [pm_made EXCEPT !.pools = @ + 1]
          /\ pm_sync_pool' = pm_made.pools + 1
          /\ pm_threads' = Goto(t, "pool_return")
          /\ UNCHANGED pm_lock
       \/ /\ pm_lock' = 0
          /\ pm_threads' = Goto(t, "raised")
          /\ UNCHANGED <<pm_made, pm_sync_pool>>
    /\ UNCHANGED <<pm_instance, PoolManagerFrame>>

\* get_sync_pool: `return self._sync_pool`, leaving the with block
PoolReturn(t) ==
    /\ At(t, "pool_return")
    /\ pm_lock' = 0
    /\ pm_threads' = [pm_threads EXCEPT
                        ![t].pc = IF pm_threads[t].op = "sync_connection"
                                  THEN "connect" ELSE "done",
                        ![t].pool = pm_sync_pool]
    /\ UNCHANGED <<pm_instance, pm_sync_pool, pm_made, PoolManagerFrame>>

\* sync_connection: `with pool.connection() as conn: yield conn`
ConnectionEnter(t) ==
    /\ At(t, "connect")
    /\ pm_threads' = Goto(t, "using")
    /\ UNCHANGED <<pm_lock, pm_instance, pm_sync_pool, pm_made, PoolManagerFrame>>

\* the caller's with block ends
ConnectionExit(t) ==
    /\ At(t, "using")
    /\ pm_threads' = Goto(t, "done")
    /\ UNCHANGED <<pm_lock, pm_instance, pm_sync_pool, pm_made, PoolManagerFrame>>

NextPoolManager ==
    \E t \in Threads :
       \/ NewAcquire(t)
       \/ NewCheck(t)
       \/ NewCreate(t)
       \/ NewReturn(t)
       \/ PoolAcquire(t)
       \/ PoolCheck(t)
       \/ PoolCreate(t)
       \/ PoolReturn(t)
       \/ ConnectionEnter(t)
       \/ ConnectionExit(t)

SpecPoolManager == InitPoolManager /\ [][NextPoolManager]_vars

CheckAndCreate == {"new_check", "new_create", "new_return",
                   "pool_check", "pool_create", "pool_return"}
HasManager(t) == pm_threads[t].pc \notin {"new", "new_check", "new_create", "new_return"}
HasPool(t) == pm_threads[t].pc \in {"connect", "using", "done"}

\* C33: whatever the interleaving, at most one manager and at most one pool
\* are constructed; every thread that was handed a manager got that one, and
\* every thread that was handed a pool got that one pool; the lock is held
\* exactly by a thread inside a check-and-create step, by one at a time, and
\* never by a thread that is taking or using a pooled connection.
C33_LazyCreationIsRaceFree ==
    /\ pm_made.managers <= 1 /\ pm_made.pools <= 1
    /\ \A t \in Threads :
          /\ HasManager(t) => pm_made.managers = 1 /\ pm_threads[t].manager = 1
          /\ HasPool(t) => pm_made.pools = 1 /\ pm_threads[t].pool = 1
          /\ pm_threads[t].pc \in CheckAndCreate <=> pm_lock = t
          /\ pm_threads[t].pc \in {"connect", "using"} => pm_lock # t
    /\ Cardinality({t \in Threads : pm_threads[t].pc \in CheckAndCreate}) <= 1

\* two threads hold a connection of the one pool at once, the lock is free
C33_Witness ==
    /\ \A t \in Threads : pm_threads[t].pc = "using" /\ pm_threads[t].pool = 1
    /\ pm_lock = 0 /\ pm_made = [managers |-> 1, pools |-> 1]

\* one thread's ConnectionPool(...) raised; the next thread created the pool
C33_RetriedCreationWitness ==
    /\ \E t \in Threads : pm_threads[t].pc = "raised"
    /\ \E t \in Threads : pm_threads[t].pc = "done" /\ pm_threads[t].pool = 1



(***************************************************************************)
(* SpecFanOut: AsyncStreamStrategy._stream_concurrent on its pool path,    *)
(* task by task.  asyncio.gather starts one task per range; each task      *)
(* takes a holder of the pool (connecting it first when the holder has no  *)
(* live connection: the pool starts with min_size = 1), reads its range    *)
(* and releases.  gather hands the first exception to the awaiting         *)
(* coroutine and leaves the other tasks running.  Pool.close() marks the   *)
(* pool closing, waits for the holders in use to be released and closes    *)
(* the connections; a holder that is still connecting is not in use.       *)
(***************************************************************************)
FanOutFrame == <<earlyVars, agVars, rtVars, pmVars, ccVars>>

\* effective_concurrency = max(1, min(self.concurrency, limit))
fo_effective_concurrency == Max2(1, Min2(fo_in.concurrency, fo_in.limit))

\* the calls that reach asyncpg.create_pool: limit > 0, effective concurrency > 1
InitFanOut ==
    /\ fo_in \in [entry : {"execute", "execute_async"},
                  rows : {0, 3, 8},
                  limit : {2, CONCURRENT_ID_WINDOW_THRESHOLD,
                           CONCURRENT_ID_WINDOW_THRESHOLD + 2},
                  concurrency : 2..MaxConcurrency]
    /\ fo_pc = "create_pool"
    /\ fo_pool = None
    /\ fo_loc = [remaining |-> fo_in.limit, selected |-> 0, rows_read |-> 0,
                 ids |-> 0, holder |-> 0]
    /\ fo_tasks = <<>>
    /\ fo_obs = [exc |-> None, out |-> None, late |-> 0, left_running |-> {}]
    /\ EarlyIdle
    /\ AggregateIdle
    /\ RetryIdle
    /\ PoolManagerIdle
    /\ ChildCpuIdle

Prefetching == fo_in.limit <= CONCURRENT_ID_WINDOW_THRESHOLD
TasksIn(states) == {k \in DOMAIN fo_tasks : fo_tasks[k] \in states}
\* holders taken from the pool: by the selection, by tasks using a connection,
\* by tasks connecting one
Held == fo_loc.holder + Cardinality(TasksIn({"holding", "connecting"}))

\* pool = await asyncpg.create_pool(dsn, min_size=1, max_size=effective_concurrency * 2)
CreatePool ==
    /\ fo_pc = "create_pool"
    /\ fo_pool' = Some([state |-> "open", connected |-> 1,
                        max_size |-> fo_effective_concurrency * 2])
    /\ fo_pc' = "select"
    /\ UNCHANGED <<fo_in, fo_loc, fo_tasks, fo_obs, FanOutFrame>>

\* `async with pool.acquire() as conn:` of the prefetch or of a window
SelectAcquire ==
    /\ fo_pc = "select"
    /\ fo_loc' = [fo_loc EXCEPT !.holder = 1]
    /\ fo_pc' = "selecting"
    /\ UNCHANGED <<fo_in, fo_pool, fo_tasks, fo_obs, FanOutFrame>>

\* faulty variant: the selection's connection is kept during the fan-out
ReleasesBeforeFanOut_Never == FALSE

\* the selection's `async with` block has ended before process_selected_ids
ReleasesBeforeFanOut == TRUE

\* the identifier query returns (or raises) and the connection is released;
\* an empty selection returns 0 (prefetch) or leaves the loop (windows)
SelectDone ==
    /\ fo_pc = "selecting"
    /\ \/ /\ fo_obs' = [fo_obs EXCEPT !.exc = Some("select")]
          /\ fo_loc' = [fo_loc EXCEPT !.holder = 0]
          /\ fo_pc' = "closing"
       \/ LET want == IF Prefetching THEN fo_in.limit
                      ELSE Min2(CONCURRENT_ID_WINDOW_SIZE, fo_loc.remaining)
              got == Min2(want, fo_in.rows - fo_loc.selected)
          IN  IF got = 0
              THEN /\ fo_loc' = [fo_loc EXCEPT !.holder = 0, !.ids = 0]
                   /\ fo_obs' = [fo_obs EXCEPT !.out = Some(fo_loc.rows_read)]
                   /\ fo_pc' = "closing"
              ELSE /\ fo_loc' = [fo_loc EXCEPT
                                   !.holder = IF ReleasesBeforeFanOut THEN 0 ELSE 1,
                                   !.ids = got]
                   /\ fo_pc' = "fan_out"
                   /\ UNCHANGED fo_obs
    /\ UNCHANGED <<fo_in, fo_pool, fo_tasks, FanOutFrame>>

\* faulty variant: one task per identifier
TasksFor_OnePerId(ids, concurrency) == ids

\* tasks = [fetch_range(...) for start_idx, end_idx in ranges]
TasksFor(ids, concurrency) == Len(_split_limit_ranges(ids, concurrency))

\* counts = await asyncio.gather(*tasks): every task runs up to its first
\* suspension, inside pool.acquire(); holders with a live connection are
\* handed out first, the other tasks start connecting theirs
StartTasks ==
    /\ fo_pc = "fan_out"
    /\ LET n == TasksFor(fo_loc.ids, fo_effective_concurrency)
           ready == fo_pool[1].connected - fo_loc.holder
       IN  fo_tasks' = [k \in 1..n |-> IF k <= ready THEN "holding" ELSE "connecting"]
    /\ fo_pc' = "gather"
    /\ UNCHANGED <<fo_in, fo_pool, fo_loc, fo_obs, FanOutFrame>>

\* a task's holder has connected: the task holds the connection from now on,
\* whatever the state of the pool; or the connection attempt failed
TaskConnects(k) ==
    /\ k \in TasksIn({"connecting"})
    /\ \/ /\ fo_tasks' = [fo_tasks EXCEPT ![k] = "holding"]
          /\ fo_pool' = Some([fo_pool[1] EXCEPT !.connected = @ + 1])
          /\ fo_obs' = [fo_obs EXCEPT
                          !.late = @ + (IF fo_pool[1].state = "closed" THEN 1 ELSE 0)]
       \/ /\ fo_tasks' = [fo_tasks EXCEPT ![k] = "failed"]
          /\ UNCHANGED <<fo_pool, fo_obs>>
    /\ UNCHANGED <<fo_in, fo_pc, fo_loc, FanOutFrame>>

\* fetch_range reads its range and returns its count, or raises; either way
\* the `async with pool.acquire()` block releases the holder
TaskEnds(k) ==
    /\ k \in TasksIn({"holding"})
    /\ \E how \in {"done", "failed"} : fo_tasks' = [fo_tasks EXCEPT ![k] = how]
    /\ UNCHANGED <<fo_in, fo_pc, fo_pool, fo_loc, fo_obs, FanOutFrame>>

\* gather: the first exception of a task reaches process_selected_ids and
\* leaves the try block; the other tasks are left as they are
GatherRaises ==
    /\ fo_pc = "gather"
    /\ TasksIn({"failed"}) # {}
    /\ fo_obs' = [fo_obs EXCEPT !.exc = Some("task")]
    /\ fo_pc' = "closing"
    /\ UNCHANGED <<fo_in, fo_pool, fo_loc, fo_tasks, FanOutFrame>>

\* gather: every task returned; sum(counts); the prefetch returns, the window
\* loop advances
GatherReturns ==
    /\ fo_pc = "gather"
    /\ TasksIn({"done"}) = DOMAIN fo_tasks
    /\ LET rows_read == fo_loc.rows_read + fo_loc.ids
           remaining == fo_loc.remaining - fo_loc.ids
       IN  /\ fo_loc' = [fo_loc EXCEPT !.rows_read = rows_read,
                                       !.remaining = remaining,
                                       !.selected = @ + fo_loc.ids,
                                       !.holder = 0]
           /\ IF Prefetching \/ remaining <= 0
              THEN /\ fo_obs' = [fo_obs EXCEPT !.out = Some(rows_read)]
                   /\ fo_pc' = "closing"
              ELSE /\ fo_pc' = "select"
                   /\ UNCHANGED fo_obs
    /\ UNCHANGED <<fo_in, fo_pool, fo_tasks, FanOutFrame>>

\* finally: await pool.close() -- the pool is marked closing
ClosePoolBegins ==
    /\ fo_pc = "closing"
    /\ fo_pool' = Some([fo_pool[1] EXCEPT !.state = "closing"])
    /\ fo_pc' = "close_wait"
    /\ UNCHANGED <<fo_in, fo_loc, fo_tasks, fo_obs, FanOutFrame>>

\* Pool.close() waits for the holders in use
CloseWaitsFor == {"holding"}

\* pool.close() returns: connections closed, pool closed; _stream_concurrent
\* is left by its return value or by the exception
ClosePoolEnds ==
    /\ fo_pc = "close_wait"
    /\ TasksIn(CloseWaitsFor) = {}
    /\ fo_pool' = Some([fo_pool[1] EXCEPT !.state = "closed", !.connected = 0])
    /\ fo_obs' = [fo_obs EXCEPT !.left_running = TasksIn({"holding", "connecting"})]
    /\ fo_pc' = "exited"
    /\ UNCHANGED <<fo_in, fo_loc, fo_tasks, FanOutFrame>>

\* execute(): asyncio.run cancels the tasks still pending and closes its loop;
\* under execute_async the caller's loop goes on running them
LoopShutdown ==
    /\ fo_pc = "exited" /\ fo_in.entry = "execute"
    /\ fo_tasks' = [k \in DOMAIN fo_tasks |->
                      IF fo_tasks[k] \in {"holding", "connecting"} THEN "cancelled"
                      ELSE fo_tasks[k]]
    /\ fo_pc' = "loop_closed"
    /\ UNCHANGED <<fo_in, fo_pool, fo_loc, fo_obs, FanOutFrame>>

NextFanOut ==
    \/ CreatePool
    \/ SelectAcquire
    \/ SelectDone
    \/ StartTasks
    \/ \E k \in DOMAIN fo_tasks : TaskConnects(k)
    \/ \E k \in DOMAIN fo_tasks : TaskEnds(k)
    \/ GatherRaises
    \/ GatherReturns
    \/ ClosePoolBegins
    \/ ClosePoolEnds
    \/ LoopShutdown

SpecFanOut == InitFanOut /\ [][NextFanOut]_vars



\* C38: the holders taken from the pool at any moment number at most the
\* effective concurrency min(concurrency, limit), which is within max_size;
\* while the coroutine holds a connection for a selection no task of a
\* fan-out is running, and during a fan-out it holds none; a prefetch or
\* window has at most effective-concurrency tasks, each with one holder.
C38_HeldWithinConcurrency ==
    fo_pool # None =>
       /\ fo_effective_concurrency = Min2(fo_in.concurrency, fo_in.limit)
       /\ Held <= fo_effective_concurrency
       /\ fo_effective_concurrency <= fo_pool[1].max_size
       /\ Len(fo_tasks) <= fo_effective_concurrency
       /\ fo_loc.holder = 1 => TasksIn({"holding", "connecting"}) = {}
       /\ fo_pc \in {"fan_out", "gather"} => fo_loc.holder = 0

\* the second window of the paged path with as many tasks as the effective
\* concurrency, every one of them holding a connection
C38_Witness ==
    /\ fo_pc = "gather" /\ ~Prefetching /\ fo_loc.selected > 0
    /\ fo_effective_concurrency = MaxConcurrency
    /\ Held = MaxConcurrency
    /\ TasksIn({"holding"}) = DOMAIN fo_tasks

\* the first fan-out: one task on the pool's one live connection, the others
\* connecting theirs
C38_FirstFanOutWitness ==
    /\ fo_pc = "gather" /\ fo_loc.selected = 0
    /\ Held = MaxConcurrency
    /\ TasksIn({"holding"}) = {1} /\ TasksIn({"connecting"}) = {2, 3}

Exited == fo_pc \in {"exited", "loop_closed"}

\* C39: once an exception of a fan-out task has left _stream_concurrent (its
\* pool closed), no task of that fan-out is still running, and no task gets
\* or uses a connection of the pool after the pool was closed.
C39_NoTaskOutlivesTheCall ==
    /\ Exited /\ fo_obs.exc = Some("task") =>
          TasksIn({"holding", "connecting"}) = {}
    /\ fo_obs.late = 0
    /\ fo_pool # None /\ fo_pool[1].state = "closed" => TasksIn({"holding"}) = {}

\* what does hold: close() has waited for the tasks that were using a
\* connection, so a task left running at the exit was still connecting; and
\* when nothing was raised, every task had returned
TasksInUseAreAwaited ==
    /\ Exited => TasksIn({"holding"}) \subseteq fo_obs.left_running
    /\ Exited /\ fo_obs.late = 0 => TasksIn({"holding"}) = {}
    /\ Exited /\ fo_obs.exc # Some("task") => TasksIn({"holding", "connecting"}) = {}
    /\ fo_pc = "loop_closed" => TasksIn({"holding", "connecting"}) = {}

\* under execute_async a task that was connecting when its sibling failed
\* holds a connection of the closed pool after the exception has left
C39_LateTaskWitness ==
    /\ fo_in.entry = "execute_async" /\ fo_pc = "exited"
    /\ fo_obs.exc = Some("task") /\ fo_pool[1].state = "closed"
    /\ fo_obs.late = 1 /\ TasksIn({"holding"}) # {}



(***************************************************************************)
(* SpecChildCpu: the loop body of _sample_resources over the children,     *)
(* one child and one sample at a time, with the children's real CPU time.  *)
(***************************************************************************)
MaxCpuTime == 3
MaxReads == 4

ChildCpuFrame == <<earlyVars, agVars, rtVars, pmVars, foVars>>

ChildPids == {1, 2}

InitChildCpu ==
    /\ cc_cpu \in [ChildPids -> 0..1]
    /\ cc_seen = [pid \in ChildPids |-> None]
    /\ cc_total = 0
    /\ cc_obs = [pid \in ChildPids |->
                   [first |-> None, last |-> None, contributed |-> 0,
                    failed |-> FALSE, reads |-> 0]]
    /\ EarlyIdle
    /\ AggregateIdle
    /\ RetryIdle
    /\ PoolManagerIdle
    /\ FanOutIdle

\* a child consumes one unit of CPU time
ChildRuns(pid) ==
    /\ cc_cpu[pid] < MaxCpuTime
    /\ cc_cpu' = [cc_cpu EXCEPT ![pid] = @ + 1]
    /\ UNCHANGED <<cc_seen, cc_total, cc_obs, ChildCpuFrame>>

\* delta = child_cpu - seen_children[pid]; nothing for a pid not seen before
ChildDelta(child_cpu, seen) == IF seen = None THEN 0 ELSE child_cpu - seen[1]

\* _get_cpu_times_total(child): the CPU time, or 0.0 when cpu_times() raises
\* NoSuchProcess / AccessDenied
_get_cpu_times_total(cpu, read_ok) == IF read_ok THEN cpu ELSE 0

\* one pass of the loop body for child pid whose memory_info() succeeded
SampleChild(pid) ==
    /\ cc_obs[pid].reads < MaxReads
    /\ \E read_ok \in BOOLEAN :
          LET child_cpu == _get_cpu_times_total(cc_cpu[pid], read_ok)
              delta == ChildDelta(child_cpu, cc_seen[pid])
              added == IF delta > 0 THEN delta ELSE 0
          IN  /\ cc_total' = cc_total + added
              /\ cc_seen' = [cc_seen EXCEPT ![pid] = Some(child_cpu)]
              /\ cc_obs' = [cc_obs EXCEPT
                              ![pid].reads = @ + 1,
                              ![pid].contributed = @ + added,
                              ![pid].failed = @ \/ ~read_ok,
                              ![pid].first = IF read_ok /\ @ = None
                                             THEN Some(cc_cpu[pid]) ELSE @,
                              ![pid].last = IF read_ok THEN Some(cc_cpu[pid]) ELSE @]
    /\ UNCHANGED <<cc_cpu, ChildCpuFrame>>

\* child.memory_info() raised: the body is left before the CPU accounting
SkipChild(pid) ==
    /\ cc_obs[pid].reads < MaxReads
    /\ cc_obs' = [cc_obs EXCEPT ![pid].reads = @ + 1]
    /\ UNCHANGED <<cc_cpu, cc_seen, cc_total, ChildCpuFrame>>

NextChildCpu ==
    \E pid \in ChildPids :
       \/ ChildRuns(pid)
       \/ SampleChild(pid)
       \/ SkipChild(pid)

SpecChildCpu == InitChildCpu /\ [][NextChildCpu]_vars

\* the CPU time child pid consumed between its first and its last successful
\* reading
ConsumedWhileObserved(pid) ==
    IF cc_obs[pid].first = None THEN 0
    ELSE cc_obs[pid].last[1] - cc_obs[pid].first[1]

SumOver(f) == f[1] + f[2]

\* C40: total_child_cpu_time never decreases, and for every child what has
\* been accumulated for it is at most the CPU time it consumed between its
\* first and its last successful reading, failed readings in between included.
C40_ChildCpuNeverDoubleCounts ==
    /\ [][cc_total' >= cc_total]_vars
    /\ [](\A pid \in ChildPids :
             cc_obs[pid].contributed <= ConsumedWhileObserved(pid))

\* the total never decreases and is the sum of the children's contributions;
\* a child none of whose CPU readings failed is counted exactly
ExactWithoutFailedReads ==
    /\ cc_total = SumOver([pid \in ChildPids |-> cc_obs[pid].contributed])
    /\ \A pid \in ChildPids :
          ~cc_obs[pid].failed =>
             cc_obs[pid].contributed = ConsumedWhileObserved(pid)

\* a child read at 1, then unreadable, then read at 3: 3 units are accumulated
\* for the 2 it consumed
C40_RecountWitness ==
    \E pid \in ChildPids :
       /\ cc_obs[pid].first = Some(1) /\ cc_obs[pid].last = Some(3)
       /\ cc_obs[pid].failed /\ cc_obs[pid].contributed = 3


====
